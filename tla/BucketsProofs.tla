---------------------------- MODULE BucketsProofs ----------------------------
(***************************************************************************)
(* Proofs about Buckets: what a client makes of a set of operations, what  *)
(* it makes of a compacted one, and the same of documents: how they may be *)
(* replaced, and what their statistics say of what was written.            *)
(***************************************************************************)
EXTENDS Buckets, FiniteSetTheorems, WellFoundedInduction, TLAPS

(* Induction on a finite set: a property of subsets, as a set of them. *)
LEMMA SubsetInduction ==
  ASSUME NEW S, IsFiniteSet(S), NEW P,
         \A T \in SUBSET S : (\A U \in SUBSET T : U # T => U \in P) => T \in P
  PROVE  \A T \in SUBSET S : T \in P
<1> DEFINE B == {T \in SUBSET S : T \notin P}
           R == StrictSubsetOrdering(S)
<1>1. IsWellFoundedOn(R, SUBSET S)
  BY FS_StrictSubsetOrderingWellFounded, FS_FiniteSubsetsOfFinite
<1>2. CASE B # {}
  <2>0. B \subseteq SUBSET S
    OBVIOUS
  <2>1. \E T \in B : \A U \in B : ~ (<<U, T>> \in R)
    <3> HIDE DEF B, R
    <3> QED BY <1>1, <1>2, <2>0, WFMin
  <2>2. PICK T \in B : \A U \in B : ~ (<<U, T>> \in R)
    BY <2>1
  <2>3. \A U \in SUBSET T : U # T => U \in P
    BY <2>2 DEF StrictSubsetOrdering
  <2>4. QED
    BY <2>3
<1>3. QED
  BY <1>2

(* Induction on the natural numbers, likewise. *)
LEMMA NatSetInduction ==
  ASSUME NEW P, 0 \in P, \A n \in Nat : n \in P => n + 1 \in P
  PROVE  Nat \subseteq P
<1> SUFFICES ASSUME NEW n \in Nat PROVE n \in P
  OBVIOUS
<1> DEFINE Q == {T \in SUBSET (0..n) : \A k \in Nat : T = 0..k => k \in P}
<1>1. IsFiniteSet(0..n)
  BY FS_Interval
<1>2. ASSUME NEW T \in SUBSET (0..n), \A U \in SUBSET T : U # T => U \in Q
      PROVE  T \in Q
  <2> SUFFICES ASSUME NEW k \in Nat, T = 0..k PROVE k \in P
    OBVIOUS
  <2>1. CASE k # 0
    <3>1. k - 1 \in Nat /\ 0..(k-1) \in SUBSET T /\ 0..(k-1) # T
      BY <2>1
    <3>2. k - 1 \in P
      BY <1>2, <3>1
    <3>3. QED
      BY <3>1, <3>2
  <2>2. QED
    BY <2>1
<1>3. 0..n \in Q
  <2> HIDE DEF Q
  <2>1. \A T \in SUBSET (0..n) : (\A U \in SUBSET T : U # T => U \in Q) => T \in Q
    BY <1>2
  <2>2. \A T \in SUBSET (0..n) : T \in Q
    BY <1>1, <2>1, SubsetInduction, ZenonT(40)
  <2> QED BY <2>2
<1>4. QED
  BY <1>3

-----------------------------------------------------------------------------
(***************************************************************************)
(* A fold over the subsets of a finite set, one element at a time: C       *)
(* chooses it, h adds it. There is a function that computes the fold.      *)
(***************************************************************************)
IsFoldData(S, R, base, C, h) ==
  /\ IsFiniteSet(S) /\ base \in R
  /\ \A T \in (SUBSET S) \ {{}} : C[T] \in T
  /\ h \in [(SUBSET S) \X R -> R]

IsFoldOf(g, S, R, base, C, h) ==
  /\ g \in [SUBSET S -> R]
  /\ g[{}] = base
  /\ \A T \in (SUBSET S) \ {{}} : g[T] = h[<<T, g[T \ {C[T]}]>>]

LEMMA FoldExists ==
  ASSUME NEW S, NEW R, NEW base, NEW C, NEW h, IsFoldData(S, R, base, C, h)
  PROVE  \E g : IsFoldOf(g, S, R, base, C, h)
<1> USE DEF IsFoldData
<1> DEFINE Upto(n) == {T \in SUBSET S : Cardinality(T) <= n}
           IsFold(g, n) == g = [T \in Upto(n) |-> IF T = {} THEN base ELSE h[<<T, g[T \ {C[T]}]>>]]
           P == {n \in Nat : \E g \in [Upto(n) -> R] : IsFold(g, n)}
<1>1. \A T \in SUBSET S : IsFiniteSet(T) /\ Cardinality(T) \in Nat /\ Cardinality(T) <= Cardinality(S)
  BY FS_Subset, FS_CardinalityType
<1>2. \A T \in (SUBSET S) \ {{}} : Cardinality(T \ {C[T]}) = Cardinality(T) - 1 /\ T \ {C[T]} \in SUBSET S
  BY <1>1, FS_RemoveElement
<1>3. 0 \in P
  <2>1. \A T \in Upto(0) : T = {}
    BY <1>1, FS_EmptySet
  <2> DEFINE g0 == [T \in Upto(0) |-> base]
  <2>2. g0 \in [Upto(0) -> R] /\ IsFold(g0, 0)
    BY <2>1
  <2> HIDE DEF g0, Upto, IsFold
  <2> QED BY <2>2
<1>4. ASSUME NEW n \in Nat, n \in P PROVE n + 1 \in P
  <2>1. PICK g \in [Upto(n) -> R] : IsFold(g, n)
    BY <1>4
  <2> DEFINE g1 == [T \in Upto(n + 1) |-> IF T \in Upto(n) THEN g[T] ELSE h[<<T, g[T \ {C[T]}]>>]]
  <2>2. ASSUME NEW T \in Upto(n + 1), T # {} PROVE T \ {C[T]} \in Upto(n) /\ T \ {C[T]} \in Upto(n + 1)
    BY <1>1, <1>2, <2>2
  <2>3. \A T \in Upto(n) : g[T] = IF T = {} THEN base ELSE h[<<T, g[T \ {C[T]}]>>]
    <3> HIDE DEF Upto
    <3> QED BY <2>1
  <2>4. {} \in Upto(n)
    BY FS_EmptySet
  <2>5. g1 \in [Upto(n + 1) -> R]
    <3> SUFFICES ASSUME NEW T \in Upto(n + 1), T \notin Upto(n) PROVE h[<<T, g[T \ {C[T]}]>>] \in R
      <4> HIDE DEF Upto
      <4> QED OBVIOUS
    <3>1. T \ {C[T]} \in Upto(n) /\ T \in SUBSET S
      BY <2>2, <2>4
    <3>2. g[T \ {C[T]}] \in R
      <4> HIDE DEF Upto
      <4> QED BY <3>1
    <3> QED BY <3>1, <3>2
  <2>6. ASSUME NEW T \in Upto(n + 1)
        PROVE  g1[T] = IF T = {} THEN base ELSE h[<<T, g1[T \ {C[T]}]>>]
    <3>1. CASE T = {}
      <4> HIDE DEF Upto
      <4> QED BY <2>3, <2>4, <3>1
    <3>2. CASE T # {}
      <4>1. g1[T \ {C[T]}] = g[T \ {C[T]}]
        <5> HIDE DEF Upto
        <5> QED BY <2>2, <3>2
      <4>2. g1[T] = h[<<T, g[T \ {C[T]}]>>]
        <5> HIDE DEF Upto
        <5> QED BY <2>3, <3>2
      <4> HIDE DEF g1
      <4> QED BY <3>2, <4>1, <4>2
    <3> QED BY <3>1, <3>2
  <2>7. IsFold(g1, n + 1)
    <3> DEFINE f == [T \in Upto(n + 1) |-> IF T = {} THEN base ELSE h[<<T, g1[T \ {C[T]}]>>]]
    <3>1. \A T \in Upto(n + 1) : g1[T] = f[T]
      <4> HIDE DEF Upto, g1
      <4> QED BY <2>6
    <3>2. g1 = f
      <4> HIDE DEF Upto
      <4> QED BY <3>1
    <3> QED BY <3>2
  <2> HIDE DEF Upto, IsFold, g1
  <2> QED BY <2>5, <2>7
<1>5. Cardinality(S) \in P
  <2> HIDE DEF P
  <2> QED BY <1>1, <1>3, <1>4, NatSetInduction
<1>6. Upto(Cardinality(S)) = SUBSET S
  BY <1>1
<1>7. \E g \in [Upto(Cardinality(S)) -> R] : IsFold(g, Cardinality(S))
  <2> HIDE DEF Upto, IsFold
  <2> QED BY <1>5
<1>8. PICK g \in [Upto(Cardinality(S)) -> R] : IsFold(g, Cardinality(S))
  <2> HIDE DEF IsFold, Upto
  <2> QED BY <1>7
<1>9. g \in [SUBSET S -> R]
  <2> HIDE DEF Upto
  <2> QED BY <1>6
<1>10. g = [T \in SUBSET S |-> IF T = {} THEN base ELSE h[<<T, g[T \ {C[T]}]>>]]
  <2> HIDE DEF Upto, P
  <2> QED BY <1>6, <1>8
<1>11. \A T \in SUBSET S : g[T] = IF T = {} THEN base ELSE h[<<T, g[T \ {C[T]}]>>]
  BY <1>10
<1> HIDE DEF P, Upto, IsFold
<1> QED BY <1>9, <1>11 DEF IsFoldOf

-----------------------------------------------------------------------------
(***************************************************************************)
(* Sums of checksums.                                                      *)
(***************************************************************************)
Picked(s) == CHOOSE x \in s : TRUE
IsSum(g, S) == g = [s \in SUBSET S |-> IF s = {} THEN 0 ELSE Picked(s).checksum + g[s \ {Picked(s)}]]

LEMMA SumOf == \A S : SumChecksums(S) = (CHOOSE g : IsSum(g, S))[S]
BY DEF SumChecksums, MapThenSumSet, MapThenFoldSet, IsSum, Picked

LEMMA SumExists ==
  ASSUME NEW S, IsFiniteSet(S), \A o \in S : o.checksum \in Nat
  PROVE  \E g \in [SUBSET S -> Nat] : IsSum(g, S)
<1> DEFINE C == [T \in (SUBSET S) \ {{}} |-> Picked(T)]
           h == [p \in (SUBSET S) \X Nat |-> IF p[1] = {} THEN 0 ELSE Picked(p[1]).checksum + p[2]]
<1>1. \A T \in (SUBSET S) \ {{}} : Picked(T) \in T
  BY DEF Picked
<1>2. \A T \in (SUBSET S) \ {{}} : C[T] \in T
  BY <1>1
<1>3. h \in [(SUBSET S) \X Nat -> Nat]
  BY <1>1
<1>4. IsFoldData(S, Nat, 0, C, h)
  <2> HIDE DEF C, h
  <2> QED BY <1>2, <1>3 DEF IsFoldData
<1>5. PICK g : IsFoldOf(g, S, Nat, 0, C, h)
  <2> HIDE DEF C, h
  <2> QED BY <1>4, FoldExists
<1>51. /\ g \in [SUBSET S -> Nat]
       /\ g[{}] = 0
       /\ \A T \in (SUBSET S) \ {{}} : g[T] = h[<<T, g[T \ {C[T]}]>>]
  <2> HIDE DEF C, h
  <2> QED BY <1>5 DEF IsFoldOf
<1>6. \A T \in (SUBSET S) \ {{}} : g[T] = Picked(T).checksum + g[T \ {Picked(T)}]
  BY <1>1, <1>51
<1>7. IsSum(g, S)
  <2> DEFINE f == [T \in SUBSET S |-> IF T = {} THEN 0 ELSE Picked(T).checksum + g[T \ {Picked(T)}]]
  <2>1. \A T \in SUBSET S : g[T] = f[T]
    BY <1>51, <1>6
  <2>2. g = f
    <3>1. \A T \in SUBSET S : g[T] = IF T = {} THEN 0 ELSE Picked(T).checksum + g[T \ {Picked(T)}]
      BY <2>1
    <3> QED BY <1>51, <3>1
  <2> QED BY <2>2 DEF IsSum
<1> QED BY <1>51, <1>7

LEMMA SumUnique ==
  ASSUME NEW S, IsFiniteSet(S), NEW T \in SUBSET S, NEW f, NEW g, IsSum(f, S), IsSum(g, T)
  PROVE  \A U \in SUBSET T : f[U] = g[U]
<1> DEFINE P == {U \in SUBSET T : f[U] = g[U]}
<1>1. IsFiniteSet(T)
  BY FS_Subset
<1>2. ASSUME NEW U \in SUBSET T, \A V \in SUBSET U : V # U => V \in P
      PROVE  U \in P
  <2>1. CASE U = {}
    BY <2>1 DEF IsSum
  <2>2. CASE U # {}
    <3>1. Picked(U) \in U
      BY <2>2 DEF Picked
    <3>2. f[U \ {Picked(U)}] = g[U \ {Picked(U)}]
      BY <1>2, <3>1
    <3>3. f[U] = Picked(U).checksum + f[U \ {Picked(U)}]
      BY <2>2 DEF IsSum
    <3>4. g[U] = Picked(U).checksum + g[U \ {Picked(U)}]
      BY <2>2 DEF IsSum
    <3> QED BY <3>2, <3>3, <3>4
  <2> QED BY <2>1, <2>2
<1>3. \A U \in SUBSET T : U \in P
  <2> HIDE DEF P
  <2>1. \A U \in SUBSET T : (\A V \in SUBSET U : V # U => V \in P) => U \in P
    BY <1>2
  <2> QED BY <1>1, <2>1, SubsetInduction
<1> QED BY <1>3

LEMMA SumAt ==
  ASSUME NEW S, IsFiniteSet(S), \A o \in S : o.checksum \in Nat, NEW g \in [SUBSET S -> Nat], IsSum(g, S)
  PROVE  \A T \in SUBSET S : SumChecksums(T) = g[T]
<1> SUFFICES ASSUME NEW T \in SUBSET S PROVE SumChecksums(T) = g[T]
  OBVIOUS
<1>1. IsFiniteSet(T)
  BY FS_Subset
<1>2. \E f : IsSum(f, T)
  BY <1>1, SumExists
<1>3. IsSum((CHOOSE f : IsSum(f, T)), T)
  BY <1>2
<1>4. g[T] = (CHOOSE f : IsSum(f, T))[T]
  BY <1>3, SumUnique
<1> QED BY <1>4, SumOf

LEMMA SumEmpty == SumChecksums({}) = 0
<1>1. PICK g \in [SUBSET {} -> Nat] : IsSum(g, {})
  BY SumExists, FS_EmptySet
<1>2. SumChecksums({}) = g[{}]
  BY <1>1, SumAt, FS_EmptySet
<1> QED BY <1>1, <1>2 DEF IsSum

LEMMA SumPicked ==
  ASSUME NEW S, IsFiniteSet(S), \A o \in S : o.checksum \in Nat
  PROVE  /\ SumChecksums(S) \in Nat
         /\ S # {} => SumChecksums(S) = Picked(S).checksum + SumChecksums(S \ {Picked(S)})
<1>1. PICK g \in [SUBSET S -> Nat] : IsSum(g, S)
  BY SumExists
<1>2. \A T \in SUBSET S : SumChecksums(T) = g[T]
  BY <1>1, SumAt
<1>3. S # {} => g[S] = Picked(S).checksum + g[S \ {Picked(S)}]
  BY <1>1 DEF IsSum
<1> QED BY <1>2, <1>3

LEMMA SumRemove ==
  ASSUME NEW S, IsFiniteSet(S), \A o \in S : o.checksum \in Nat
  PROVE  \A x \in S : SumChecksums(S) = x.checksum + SumChecksums(S \ {x})
<1> DEFINE P == {T \in SUBSET S : \A x \in T : SumChecksums(T) = x.checksum + SumChecksums(T \ {x})}
<1>1. ASSUME NEW T \in SUBSET S, \A U \in SUBSET T : U # T => U \in P
      PROVE  T \in P
  <2> SUFFICES ASSUME NEW x \in T PROVE SumChecksums(T) = x.checksum + SumChecksums(T \ {x})
    OBVIOUS
  <2> DEFINE p == Picked(T)
  <2>1. p \in T /\ IsFiniteSet(T)
    BY FS_Subset DEF Picked
  <2>2. SumChecksums(T) = p.checksum + SumChecksums(T \ {p})
    BY <2>1, SumPicked
  <2>3. CASE x # p
    <3>1. SumChecksums(T \ {p}) = x.checksum + SumChecksums((T \ {p}) \ {x})
      BY <1>1, <2>1, <2>3
    <3>2. SumChecksums(T \ {x}) = p.checksum + SumChecksums((T \ {x}) \ {p})
      BY <1>1, <2>1, <2>3
    <3>3. (T \ {p}) \ {x} = (T \ {x}) \ {p}
      OBVIOUS
    <3>4. IsFiniteSet((T \ {x}) \ {p})
      BY <2>1, FS_Subset
    <3> DEFINE rest == SumChecksums((T \ {x}) \ {p})
    <3>5. rest \in Nat /\ x.checksum \in Nat /\ p.checksum \in Nat
      BY <2>1, <3>4, SumPicked
    <3>6. SumChecksums(T \ {p}) = x.checksum + rest
      BY <3>1, <3>3, Zenon
    <3>7. SumChecksums(T) = p.checksum + (x.checksum + rest)
      BY <2>2, <3>6, Zenon
    <3>8. p.checksum + (x.checksum + rest) = x.checksum + (p.checksum + rest)
      <4> DEFINE u == x.checksum
                 v == p.checksum
      <4>1. u \in Nat /\ v \in Nat
        BY <3>5
      <4> HIDE DEF rest, u, v
      <4>2. v + (u + rest) = u + (v + rest)
        BY <3>5, <4>1
      <4> QED BY <4>2 DEF u, v
    <3> QED BY <3>2, <3>7, <3>8, Zenon
  <2> QED BY <2>2, <2>3
<1>2. \A T \in SUBSET S : T \in P
  <2> HIDE DEF P
  <2>1. \A T \in SUBSET S : (\A V \in SUBSET T : V # T => V \in P) => T \in P
    BY <1>1
  <2> QED BY <2>1, SubsetInduction
<1> QED BY <1>2

(* The operations of a bucket: finitely many, with different op ids. *)
IsOps(S) == S \in SUBSET Op /\ IsFiniteSet(S) /\ \A o, p \in S : o.op_id = p.op_id => o = p

LEMMA OpFields ==
  ASSUME NEW o \in Op
  PROVE  /\ o.op_id \in Nat /\ o.op_id > 0 /\ o.checksum \in Nat /\ o.target_op \in Nat
         /\ o.op \in {"PUT", "REMOVE", "MOVE", "CLEAR"}
         /\ o.op = "PUT" <=> o \in PutOp
         /\ o.op \in {"PUT", "REMOVE"} => o.row \in Rows
         /\ o.op \notin {"PUT", "REMOVE"} => o.row = None
BY DEF Op, PutOp, RemoveOp, MoveOp, ClearOp, Null

LEMMA SumType ==
  ASSUME NEW S, IsFiniteSet(S), S \subseteq Op
  PROVE  SumChecksums(S) \in Nat
BY OpFields, SumPicked

LEMMA SumUnion ==
  ASSUME NEW A, IsFiniteSet(A), A \subseteq Op, NEW B, IsFiniteSet(B), B \subseteq Op, A \cap B = {}
  PROVE  SumChecksums(A \cup B) = SumChecksums(A) + SumChecksums(B)
<1> DEFINE P == {U \in SUBSET A : SumChecksums(U \cup B) = SumChecksums(U) + SumChecksums(B)}
<1>0. \A U \in SUBSET A : IsFiniteSet(U) /\ IsFiniteSet(U \cup B) /\ U \subseteq Op /\ U \cup B \subseteq Op
  BY FS_Subset, FS_Union
<1>1. ASSUME NEW U \in SUBSET A, \A V \in SUBSET U : V # U => V \in P
      PROVE  U \in P
  <2>1. CASE U = {}
    <3>1. U \cup B = B /\ SumChecksums(B) \in Nat
      BY <2>1, SumType
    <3> QED BY <2>1, <3>1, SumEmpty
  <2>2. CASE U # {}
    <3>1. PICK x \in U : TRUE
      BY <2>2
    <3> DEFINE W == U \ {x}
    <3>2. W \in P /\ W \in SUBSET A /\ x \in Op
      BY <1>1, <3>1
    <3>3. (U \cup B) \ {x} = W \cup B
      BY <3>1
    <3>4. SumChecksums(U \cup B) = x.checksum + SumChecksums(W \cup B)
      BY <1>0, <3>1, <3>3, SumRemove, OpFields
    <3>5. SumChecksums(U) = x.checksum + SumChecksums(W)
      BY <1>0, <3>1, SumRemove, OpFields
    <3>6. SumChecksums(W \cup B) = SumChecksums(W) + SumChecksums(B)
      BY <3>2
    <3>7. SumChecksums(W) \in Nat /\ SumChecksums(B) \in Nat /\ x.checksum \in Nat
      BY <1>0, <3>2, SumType, OpFields
    <3>8. SumChecksums(U \cup B) = SumChecksums(U) + SumChecksums(B)
      <4> DEFINE a == x.checksum
                 w == SumChecksums(W)
                 b == SumChecksums(B)
      <4>1. a \in Nat /\ w \in Nat /\ b \in Nat
        BY <3>7
      <4>2. a + (w + b) = (a + w) + b
        <5> HIDE DEF a, w, b
        <5> QED BY <4>1
      <4> QED BY <3>4, <3>5, <3>6, <4>2, Zenon
    <3> QED BY <3>8
  <2> QED BY <2>1, <2>2
<1>2. \A U \in SUBSET A : U \in P
  <2> HIDE DEF P
  <2>1. \A U \in SUBSET A : (\A V \in SUBSET U : V # U => V \in P) => U \in P
    BY <1>1
  <2> QED BY <2>1, SubsetInduction
<1> QED BY <1>2

(* What has the same op ids and checksums has the same sum. *)
LEMMA SumSame ==
  ASSUME NEW S, IsOps(S), NEW T, IsOps(T),
         \A o \in S : \E p \in T : p.op_id = o.op_id /\ p.checksum = o.checksum,
         \A p \in T : \E o \in S : p.op_id = o.op_id
  PROVE  SumChecksums(S) = SumChecksums(T)
<1> DEFINE M(U) == {p \in T : \E o \in U : o.op_id = p.op_id}
           P == {U \in SUBSET S : SumChecksums(U) = SumChecksums(M(U))}
<1>0. \A U \in SUBSET S : IsFiniteSet(U) /\ U \subseteq Op /\ IsFiniteSet(M(U)) /\ M(U) \subseteq Op
  BY FS_Subset DEF IsOps
<1>1. ASSUME NEW U \in SUBSET S, \A V \in SUBSET U : V # U => V \in P
      PROVE  U \in P
  <2>1. CASE U = {}
    <3>1. M(U) = {}
      BY <2>1
    <3> QED BY <2>1, <3>1
  <2>2. CASE U # {}
    <3>1. PICK x \in U : TRUE
      BY <2>2
    <3>2. PICK y \in T : y.op_id = x.op_id /\ y.checksum = x.checksum
      BY <3>1
    <3>3. y \in M(U) /\ M(U) \ {y} = M(U \ {x})
      BY <3>1, <3>2 DEF IsOps
    <3>4. U \ {x} \in P
      BY <1>1, <3>1
    <3>5. SumChecksums(U) = x.checksum + SumChecksums(U \ {x})
      BY <1>0, <3>1, SumRemove, OpFields
    <3>6. SumChecksums(M(U)) = y.checksum + SumChecksums(M(U) \ {y})
      <4> HIDE DEF M
      <4> QED BY <1>0, <3>3, SumRemove, OpFields
    <3>7. SumChecksums(U \ {x}) = SumChecksums(M(U \ {x}))
      BY <3>4
    <3> HIDE DEF M
    <3>8. SumChecksums(U) = SumChecksums(M(U))
      BY <3>2, <3>3, <3>5, <3>6, <3>7
    <3> QED BY <3>8
  <2> QED BY <2>1, <2>2
<1>2. \A U \in SUBSET S : U \in P
  <2> HIDE DEF P
  <2>1. \A U \in SUBSET S : (\A V \in SUBSET U : V # U => V \in P) => U \in P
    BY <1>1
  <2>2. IsFiniteSet(S)
    BY DEF IsOps
  <2> QED BY <2>1, <2>2, SubsetInduction
<1>3. M(S) = T
  OBVIOUS
<1>4. SumChecksums(S) = SumChecksums(M(S))
  BY <1>2
<1> QED BY <1>3, <1>4

LEMMA LastOpMax ==
  ASSUME NEW S, IsFiniteSet(S), S \subseteq Op, S # {}
  PROVE  LastOp(S) \in S /\ \A p \in S : p.op_id <= LastOp(S).op_id
<1> DEFINE IsLast(o, T) == o \in T /\ \A p \in T : p.op_id <= o.op_id
           P == {T \in SUBSET S : T = {} \/ \E o : IsLast(o, T)}
<1>1. ASSUME NEW T \in SUBSET S, \A U \in SUBSET T : U # T => U \in P
      PROVE  T \in P
  <2>1. CASE T # {}
    <3>1. PICK x \in T : TRUE
      BY <2>1
    <3>2. \A p \in T : p.op_id \in Nat
      BY OpFields
    <3>3. CASE T \ {x} = {}
      <4>1. IsLast(x, T)
        BY <3>1, <3>2, <3>3
      <4> QED BY <4>1
    <3>4. CASE T \ {x} # {}
      <4>1. T \ {x} \in P
        BY <1>1, <3>1
      <4>2. PICK o : IsLast(o, T \ {x})
        BY <3>4, <4>1
      <4>3. IsLast(o, T) \/ IsLast(x, T)
        BY <3>1, <3>2, <4>2
      <4> QED BY <4>3
    <3> QED BY <3>3, <3>4
  <2> QED BY <2>1
<1>2. \A T \in SUBSET S : T \in P
  <2> HIDE DEF P
  <2>1. \A T \in SUBSET S : (\A U \in SUBSET T : U # T => U \in P) => T \in P
    BY <1>1
  <2> QED BY <2>1, SubsetInduction
<1>3. \E o \in S : \A p \in S : p.op_id <= o.op_id
  BY <1>2
<1> QED BY <1>3 DEF LastOp

-----------------------------------------------------------------------------
(***************************************************************************)
(* Reduced buckets. An operation changes the content as its kind says, and *)
(* adds its checksum, or starts again with it.                             *)
(***************************************************************************)
Reduced == [puts : {P \in SUBSET PutOp : IsFiniteSet(P)}, other : Nat]

LEMMA ReducedFields ==
  ASSUME NEW r \in Reduced
  PROVE  /\ r.puts \subseteq PutOp /\ r.puts \subseteq Op /\ IsFiniteSet(r.puts) /\ r.other \in Nat
         /\ SumChecksums(r.puts) \in Nat /\ ReducedChecksum(r) \in Nat
<1>1. r.puts \subseteq PutOp /\ r.puts \subseteq Op /\ IsFiniteSet(r.puts) /\ r.other \in Nat
  BY DEF Reduced, Op
<1>2. SumChecksums(r.puts) \in Nat
  BY <1>1, SumType
<1> QED BY <1>1, <1>2 DEF ReducedChecksum

\* Whether operation q takes p out of the reduced bucket.
Kills(q, p) == q.op = "CLEAR" \/ (q.op \in {"PUT", "REMOVE"} /\ q.row = p.row)

LEMMA ReduceOpIs ==
  ASSUME NEW r \in Reduced, NEW o \in Op
  PROVE  /\ ReduceOp(o, r) \in Reduced
         /\ ReduceOp(o, r).puts = {p \in r.puts : ~Kills(o, p)} \cup {p \in {o} : o.op = "PUT"}
         /\ ReducedChecksum(ReduceOp(o, r)) = o.checksum + IF o.op = "CLEAR" THEN 0 ELSE ReducedChecksum(r)
<1> DEFINE existing == {p \in r.puts : p.row = o.row}
           left == r.puts \ existing
           n == ReduceOp(o, r)
<1>1. /\ existing \subseteq Op /\ IsFiniteSet(existing) /\ left \subseteq Op /\ IsFiniteSet(left)
      /\ left \subseteq PutOp
  BY ReducedFields, FS_Subset
<1>2. /\ SumChecksums(existing) \in Nat /\ SumChecksums(left) \in Nat /\ o.checksum \in Nat
      /\ r.other \in Nat /\ SumChecksums(r.puts) \in Nat
  BY <1>1, SumType, OpFields, ReducedFields
<1>3. SumChecksums(r.puts) = SumChecksums(existing) + SumChecksums(left)
  <2>1. r.puts = existing \cup left /\ existing \cap left = {}
    OBVIOUS
  <2> HIDE DEF existing, left
  <2> QED BY <1>1, <2>1, SumUnion
<1>4. CASE o.op = "PUT"
  <2>1. n = [puts |-> left \cup {o}, other |-> r.other + SumChecksums(existing)]
    BY <1>4 DEF ReduceOp
  <2>2. o \notin left /\ o \in PutOp
    BY <1>4, OpFields
  <2>3. IsFiniteSet(left \cup {o}) /\ left \cup {o} \subseteq PutOp /\ left \cup {o} \subseteq Op
    BY <1>1, <2>2, FS_AddElement
  <2>4. SumChecksums(left \cup {o}) = o.checksum + SumChecksums(left)
    <3>1. (left \cup {o}) \ {o} = left
      BY <2>2
    <3> HIDE DEF left
    <3> QED BY <2>3, <3>1, SumRemove, OpFields
  <2>5. n \in Reduced
    <3> HIDE DEF left, existing, n
    <3> QED BY <1>2, <2>1, <2>3 DEF Reduced
  <2>6. n.puts = {p \in r.puts : ~Kills(o, p)} \cup {p \in {o} : o.op = "PUT"}
    BY <1>4, <2>1 DEF Kills
  <2>7. ReducedChecksum(n) = o.checksum + ReducedChecksum(r)
    <3> HIDE DEF left, existing, n
    <3> QED BY <1>2, <1>3, <2>1, <2>4 DEF ReducedChecksum
  <2> QED BY <1>4, <2>5, <2>6, <2>7
<1>5. CASE o.op = "REMOVE"
  <2>1. n = [puts |-> left, other |-> r.other + SumChecksums(existing) + o.checksum]
    BY <1>5 DEF ReduceOp
  <2>5. n \in Reduced
    <3> HIDE DEF left, existing, n
    <3> QED BY <1>1, <1>2, <2>1 DEF Reduced
  <2>6. n.puts = {p \in r.puts : ~Kills(o, p)} \cup {p \in {o} : o.op = "PUT"}
    BY <1>5, <2>1 DEF Kills
  <2>7. ReducedChecksum(n) = o.checksum + ReducedChecksum(r)
    <3> HIDE DEF left, existing, n
    <3> QED BY <1>2, <1>3, <2>1 DEF ReducedChecksum
  <2> QED BY <1>5, <2>5, <2>6, <2>7
<1>6. CASE o.op = "MOVE"
  <2>1. n = [puts |-> r.puts, other |-> r.other + o.checksum]
    BY <1>6 DEF ReduceOp
  <2>5. n \in Reduced
    BY <1>2, <2>1, ReducedFields DEF Reduced
  <2>6. n.puts = {p \in r.puts : ~Kills(o, p)} \cup {p \in {o} : o.op = "PUT"}
    BY <1>6, <2>1 DEF Kills
  <2>7. ReducedChecksum(n) = o.checksum + ReducedChecksum(r)
    <3> HIDE DEF n
    <3> QED BY <1>2, <2>1 DEF ReducedChecksum
  <2> QED BY <1>6, <2>5, <2>6, <2>7
<1>7. CASE o.op = "CLEAR"
  <2>1. n = [puts |-> {}, other |-> o.checksum]
    BY <1>7 DEF ReduceOp
  <2>5. n \in Reduced
    BY <1>2, <2>1, FS_EmptySet DEF Reduced
  <2>6. n.puts = {p \in r.puts : ~Kills(o, p)} \cup {p \in {o} : o.op = "PUT"}
    BY <1>7, <2>1 DEF Kills
  <2>7. ReducedChecksum(n) = o.checksum + 0
    <3> HIDE DEF n
    <3> QED BY <1>2, <2>1, SumEmpty DEF ReducedChecksum
  <2> QED BY <1>7, <2>5, <2>6, <2>7
<1> QED BY <1>4, <1>5, <1>6, <1>7, OpFields

IsReduce(g, r, S) ==
  g = [s \in SUBSET S |-> IF s = {} THEN r ELSE ReduceOp(LastOp(s), g[s \ {LastOp(s)}])]

LEMMA ReduceOf == \A r, S : Reduce(r, S) = (CHOOSE g : IsReduce(g, r, S))[S]
BY DEF Reduce, MapThenFoldSet, IsReduce

LEMMA ReduceExists ==
  ASSUME NEW S, IsFiniteSet(S), S \subseteq Op, NEW r \in Reduced
  PROVE  \E g \in [SUBSET S -> Reduced] : IsReduce(g, r, S)
<1> DEFINE C == [T \in (SUBSET S) \ {{}} |-> LastOp(T)]
           h == [p \in (SUBSET S) \X Reduced |-> IF p[1] = {} THEN r ELSE ReduceOp(LastOp(p[1]), p[2])]
<1>1. \A T \in (SUBSET S) \ {{}} : LastOp(T) \in T /\ LastOp(T) \in Op
  BY LastOpMax, FS_Subset
<1>2. \A T \in (SUBSET S) \ {{}} : C[T] \in T
  BY <1>1
<1>3. h \in [(SUBSET S) \X Reduced -> Reduced]
  <2>1. \A p \in (SUBSET S) \X Reduced : p[1] # {} => ReduceOp(LastOp(p[1]), p[2]) \in Reduced
    BY <1>1, ReduceOpIs
  <2> QED BY <2>1
<1>4. IsFoldData(S, Reduced, r, C, h)
  <2> HIDE DEF C, h
  <2> QED BY <1>2, <1>3 DEF IsFoldData
<1>5. PICK g : IsFoldOf(g, S, Reduced, r, C, h)
  <2> HIDE DEF C, h
  <2> QED BY <1>4, FoldExists
<1>6. /\ g \in [SUBSET S -> Reduced]
      /\ g[{}] = r
      /\ \A T \in (SUBSET S) \ {{}} : g[T] = h[<<T, g[T \ {C[T]}]>>]
  <2> HIDE DEF C, h
  <2> QED BY <1>5 DEF IsFoldOf
<1>7. \A T \in (SUBSET S) \ {{}} : g[T] = ReduceOp(LastOp(T), g[T \ {LastOp(T)}])
  BY <1>1, <1>6
<1>8. IsReduce(g, r, S)
  <2> HIDE DEF C, h
  <2>1. \A T \in SUBSET S : g[T] = IF T = {} THEN r ELSE ReduceOp(LastOp(T), g[T \ {LastOp(T)}])
    BY <1>6, <1>7
  <2> QED BY <1>6, <2>1 DEF IsReduce
<1> QED BY <1>6, <1>8

LEMMA ReduceUnique ==
  ASSUME NEW S, IsFiniteSet(S), S \subseteq Op, NEW T \in SUBSET S, NEW r, NEW f, NEW g,
         IsReduce(f, r, S), IsReduce(g, r, T)
  PROVE  \A U \in SUBSET T : f[U] = g[U]
<1> DEFINE P == {U \in SUBSET T : f[U] = g[U]}
<1>1. IsFiniteSet(T)
  BY FS_Subset
<1>2. ASSUME NEW U \in SUBSET T, \A V \in SUBSET U : V # U => V \in P
      PROVE  U \in P
  <2>1. CASE U = {}
    BY <2>1 DEF IsReduce
  <2>2. CASE U # {}
    <3>1. LastOp(U) \in U
      BY <1>1, <2>2, LastOpMax, FS_Subset
    <3>2. f[U \ {LastOp(U)}] = g[U \ {LastOp(U)}]
      BY <1>2, <3>1
    <3>3. f[U] = ReduceOp(LastOp(U), f[U \ {LastOp(U)}])
      BY <2>2 DEF IsReduce
    <3>4. g[U] = ReduceOp(LastOp(U), g[U \ {LastOp(U)}])
      BY <2>2 DEF IsReduce
    <3> QED BY <3>2, <3>3, <3>4
  <2> QED BY <2>1, <2>2
<1>3. \A U \in SUBSET T : U \in P
  <2> HIDE DEF P
  <2>1. \A U \in SUBSET T : (\A V \in SUBSET U : V # U => V \in P) => U \in P
    BY <1>2
  <2> QED BY <1>1, <2>1, SubsetInduction
<1> QED BY <1>3

LEMMA ReduceStep ==
  ASSUME NEW S, IsFiniteSet(S), S \subseteq Op, NEW r \in Reduced
  PROVE  /\ Reduce(r, S) \in Reduced
         /\ S = {} => Reduce(r, S) = r
         /\ S # {} => Reduce(r, S) = ReduceOp(LastOp(S), Reduce(r, S \ {LastOp(S)}))
<1>1. PICK g \in [SUBSET S -> Reduced] : IsReduce(g, r, S)
  BY ReduceExists
<1>2. ASSUME NEW T \in SUBSET S PROVE Reduce(r, T) = g[T]
  <2>1. IsFiniteSet(T)
    BY FS_Subset
  <2>2. \E f : IsReduce(f, r, T)
    BY <2>1, ReduceExists
  <2>3. IsReduce((CHOOSE f : IsReduce(f, r, T)), r, T)
    BY <2>2
  <2>4. g[T] = (CHOOSE f : IsReduce(f, r, T))[T]
    BY <1>1, <2>3, ReduceUnique
  <2> QED BY <2>4, ReduceOf
<1>3. g[S] = IF S = {} THEN r ELSE ReduceOp(LastOp(S), g[S \ {LastOp(S)}])
  BY <1>1 DEF IsReduce
<1> QED BY <1>2, <1>3

(***************************************************************************)
(* The content of a reduced bucket: what no later operation took out.      *)
(***************************************************************************)
PutsAfter(r, S) ==
  {p \in r.puts : \A q \in S : ~Kills(q, p)}
    \cup {p \in S : p.op = "PUT" /\ \A q \in S : q.op_id > p.op_id => ~Kills(q, p)}

LEMMA ReducePuts ==
  ASSUME NEW S, IsOps(S), NEW r \in Reduced
  PROVE  Reduce(r, S).puts = PutsAfter(r, S)
<1> DEFINE P == {U \in SUBSET S : Reduce(r, U).puts = PutsAfter(r, U)}
<1>0. IsFiniteSet(S) /\ S \subseteq Op /\ \A o, p \in S : o.op_id = p.op_id => o = p
  BY DEF IsOps
<1>1. ASSUME NEW U \in SUBSET S, \A V \in SUBSET U : V # U => V \in P
      PROVE  U \in P
  <2>0. IsFiniteSet(U) /\ U \subseteq Op
    BY <1>0, FS_Subset
  <2>1. CASE U = {}
    <3>1. PutsAfter(r, U) = r.puts
      BY <2>1 DEF PutsAfter
    <3>2. Reduce(r, U) = r
      BY <2>0, <2>1, ReduceStep
    <3> QED BY <3>1, <3>2
  <2>2. CASE U # {}
    <3> DEFINE o == LastOp(U)
               W == U \ {o}
    <3>1. o \in U /\ \A p \in U : p.op_id <= o.op_id
      BY <2>0, <2>2, LastOpMax
    <3>2. \A p \in W : p.op_id < o.op_id
      <4> SUFFICES ASSUME NEW p \in W PROVE p.op_id < o.op_id
        OBVIOUS
      <4>1. p.op_id <= o.op_id /\ p.op_id # o.op_id /\ p \in Op /\ o \in Op
        BY <1>0, <3>1
      <4>2. p.op_id \in Nat /\ o.op_id \in Nat
        BY <4>1, OpFields
      <4> HIDE DEF o
      <4> QED BY <4>1, <4>2
    <3>3. Reduce(r, W).puts = PutsAfter(r, W)
      BY <1>1, <3>1
    <3>4. Reduce(r, U) = ReduceOp(o, Reduce(r, W))
      BY <2>0, <2>2, ReduceStep
    <3>5. Reduce(r, W) \in Reduced
      BY <2>0, FS_Subset, ReduceStep
    <3>6. Reduce(r, U).puts = {p \in PutsAfter(r, W) : ~Kills(o, p)} \cup {p \in {o} : o.op = "PUT"}
      BY <2>0, <3>1, <3>3, <3>4, <3>5, ReduceOpIs
    <3>7. \A p \in U : p.op_id \in Nat
      BY <2>0, OpFields
    <3>8. PutsAfter(r, U) = {p \in PutsAfter(r, W) : ~Kills(o, p)} \cup {p \in {o} : o.op = "PUT"}
      <4> HIDE DEF o
      <4>1. U = W \cup {o} /\ o \notin W
        BY <3>1
      <4>2. \A p \in r.puts : (\A q \in U : ~Kills(q, p)) <=> (\A q \in W : ~Kills(q, p)) /\ ~Kills(o, p)
        BY <4>1
      <4>3. \A p \in W : (\A q \in U : q.op_id > p.op_id => ~Kills(q, p))
                         <=> (\A q \in W : q.op_id > p.op_id => ~Kills(q, p)) /\ ~Kills(o, p)
        BY <3>2, <3>7, <4>1
      <4>4. \A q \in U : ~(q.op_id > o.op_id)
        BY <3>1, <3>7
      <4> HIDE DEF W
      <4> QED BY <4>1, <4>2, <4>3, <4>4 DEF PutsAfter
    <3> QED BY <3>6, <3>8
  <2> QED BY <2>1, <2>2
<1>2. \A U \in SUBSET S : U \in P
  <2> HIDE DEF P
  <2>1. \A U \in SUBSET S : (\A V \in SUBSET U : V # U => V \in P) => U \in P
    BY <1>1
  <2> QED BY <1>0, <2>1, SubsetInduction
<1> QED BY <1>2

(* The checksum: a sum from the last CLEAR on, or from the start. *)
LEMMA ReduceSum ==
  ASSUME NEW S, IsOps(S), \A o \in S : o.op # "CLEAR", NEW r \in Reduced
  PROVE  ReducedChecksum(Reduce(r, S)) = ReducedChecksum(r) + SumChecksums(S)
<1> DEFINE P == {U \in SUBSET S : ReducedChecksum(Reduce(r, U)) = ReducedChecksum(r) + SumChecksums(U)}
<1>0. IsFiniteSet(S) /\ S \subseteq Op
  BY DEF IsOps
<1>1. ASSUME NEW U \in SUBSET S, \A V \in SUBSET U : V # U => V \in P
      PROVE  U \in P
  <2>0. IsFiniteSet(U) /\ U \subseteq Op
    BY <1>0, FS_Subset
  <2>1. CASE U = {}
    <3>1. Reduce(r, U) = r
      BY <2>0, <2>1, ReduceStep
    <3>2. ReducedChecksum(r) + SumChecksums(U) = ReducedChecksum(r)
      BY <2>1, SumEmpty, ReducedFields
    <3> QED BY <3>1, <3>2
  <2>2. CASE U # {}
    <3> DEFINE o == LastOp(U)
               W == U \ {o}
    <3>1. o \in U /\ o \in Op /\ o.op # "CLEAR"
      BY <2>0, <2>2, LastOpMax
    <3>2. IsFiniteSet(W) /\ W \subseteq Op
      BY <2>0, FS_Subset
    <3>3. ReducedChecksum(Reduce(r, W)) = ReducedChecksum(r) + SumChecksums(W)
      BY <1>1, <3>1
    <3>4. Reduce(r, U) = ReduceOp(o, Reduce(r, W))
      BY <2>0, <2>2, ReduceStep
    <3>5. Reduce(r, W) \in Reduced
      BY <3>2, ReduceStep
    <3>6. ReducedChecksum(Reduce(r, U)) = o.checksum + ReducedChecksum(Reduce(r, W))
      BY <3>1, <3>4, <3>5, ReduceOpIs
    <3>7. SumChecksums(U) = o.checksum + SumChecksums(W)
      BY <2>0, <3>1, SumRemove, OpFields
    <3>8. o.checksum \in Nat /\ SumChecksums(W) \in Nat /\ ReducedChecksum(r) \in Nat
      BY <3>1, <3>2, OpFields, SumType, ReducedFields
    <3> DEFINE a == o.checksum
               w == SumChecksums(W)
               b == ReducedChecksum(r)
    <3>9. a + (b + w) = b + (a + w)
      <4>1. a \in Nat /\ w \in Nat /\ b \in Nat
        BY <3>8
      <4> HIDE DEF a, w, b
      <4> QED BY <4>1
    <3> QED BY <3>3, <3>6, <3>7, <3>9, Zenon
  <2> QED BY <2>1, <2>2
<1>2. \A U \in SUBSET S : U \in P
  <2> HIDE DEF P
  <2>1. \A U \in SUBSET S : (\A V \in SUBSET U : V # U => V \in P) => U \in P
    BY <1>1
  <2> QED BY <1>0, <2>1, SubsetInduction
<1> QED BY <1>2

LEMMA ReduceSumClear ==
  ASSUME NEW S, IsOps(S), NEW c \in S, c.op = "CLEAR", \A o \in S : o.op = "CLEAR" => o.op_id <= c.op_id,
         NEW r \in Reduced
  PROVE  ReducedChecksum(Reduce(r, S)) = SumChecksums({o \in S : o.op_id >= c.op_id})
<1> DEFINE From(U) == {o \in U : o.op_id >= c.op_id}
           P == {U \in SUBSET S : c \in U => ReducedChecksum(Reduce(r, U)) = SumChecksums(From(U))}
<1>0. IsFiniteSet(S) /\ S \subseteq Op /\ \A o, p \in S : o.op_id = p.op_id => o = p
  BY DEF IsOps
<1>1. ASSUME NEW U \in SUBSET S, \A V \in SUBSET U : V # U => V \in P
      PROVE  U \in P
  <2> SUFFICES ASSUME c \in U PROVE ReducedChecksum(Reduce(r, U)) = SumChecksums(From(U))
    OBVIOUS
  <2>0. IsFiniteSet(U) /\ U \subseteq Op
    BY <1>0, FS_Subset
  <2> DEFINE o == LastOp(U)
             W == U \ {o}
  <2>1. o \in U /\ o \in Op /\ \A p \in U : p.op_id <= o.op_id
    BY <2>0, LastOpMax
  <2>2. IsFiniteSet(W) /\ W \subseteq Op
    BY <2>0, FS_Subset
  <2>3. \A p \in U : p.op_id \in Nat /\ p.checksum \in Nat
    BY <2>0, OpFields
  <2>4. o.op_id >= c.op_id /\ o \in From(U)
    BY <2>1, <2>3
  <2>5. IsFiniteSet(From(U)) /\ \A p \in From(U) : p.checksum \in Nat
    BY <2>0, <2>3, FS_Subset
  <2>6. SumChecksums(From(U)) = o.checksum + SumChecksums(From(U) \ {o})
    <3> HIDE DEF From, o
    <3> QED BY <2>4, <2>5, SumRemove
  <2>7. Reduce(r, U) = ReduceOp(o, Reduce(r, W)) /\ Reduce(r, W) \in Reduced
    BY <2>0, <2>2, ReduceStep
  <2>8. ReducedChecksum(Reduce(r, U)) = o.checksum + IF o.op = "CLEAR" THEN 0 ELSE ReducedChecksum(Reduce(r, W))
    <3> HIDE DEF o, W
    <3> QED BY <2>1, <2>7, ReduceOpIs
  <2>9. From(U) \ {o} = From(W)
    OBVIOUS
  <2>10. CASE o = c
    <3>1. From(W) = {}
      <4> SUFFICES ASSUME NEW p \in W, p.op_id >= c.op_id PROVE FALSE
        OBVIOUS
      <4>1. p.op_id <= c.op_id /\ p.op_id \in Nat /\ c.op_id \in Nat
        BY <2>1, <2>3, <2>10
      <4>2. p.op_id = c.op_id
        BY <4>1
      <4> QED BY <1>0, <2>10, <4>2
    <3>2. o.op = "CLEAR"
      BY <2>10
    <3>3. SumChecksums(From(W)) = 0
      BY <3>1, SumEmpty
    <3> HIDE DEF o, W, From
    <3> QED BY <2>6, <2>8, <2>9, <3>2, <3>3
  <2>11. CASE o # c
    <3>1. o.op # "CLEAR"
      <4> SUFFICES ASSUME o.op = "CLEAR" PROVE FALSE
        OBVIOUS
      <4>1. o.op_id <= c.op_id
        BY <2>1
      <4>2. o.op_id = c.op_id
        BY <2>1, <2>3, <2>4, <4>1
      <4> QED BY <1>0, <2>1, <2>11, <4>2
    <3>2. ReducedChecksum(Reduce(r, W)) = SumChecksums(From(W))
      <4>1. W \in P /\ c \in W
        BY <1>1, <2>1, <2>11
      <4> QED BY <4>1
    <3> HIDE DEF o, W, From
    <3> QED BY <2>6, <2>8, <2>9, <3>1, <3>2
  <2> QED BY <2>10, <2>11
<1>2. \A U \in SUBSET S : U \in P
  <2> HIDE DEF P
  <2>1. \A U \in SUBSET S : (\A V \in SUBSET U : V # U => V \in P) => U \in P
    BY <1>1
  <2> QED BY <1>0, <2>1, SubsetInduction
<1>3. c \in S => ReducedChecksum(Reduce(r, S)) = SumChecksums(From(S))
  <2>1. S \in P
    BY <1>2
  <2> QED BY <2>1
<1> QED BY <1>3

(* Content and checksum determine a reduced bucket. *)
LEMMA ReducedEqual ==
  ASSUME NEW r \in Reduced, NEW s \in Reduced, r.puts = s.puts, ReducedChecksum(r) = ReducedChecksum(s)
  PROVE  r = s
<1>1. r.other = s.other
  BY ReducedFields DEF ReducedChecksum
<1> QED BY <1>1 DEF Reduced

(* The target of a CLEAR: the largest of those it takes in. *)
LEMMA MaxTargetIs ==
  ASSUME NEW S, IsFiniteSet(S), S \subseteq Op
  PROVE  /\ MaxTarget(S) \in Nat
         /\ \A o \in S : o.target_op <= MaxTarget(S)
         /\ MaxTarget(S) = Null \/ \E o \in S : o.target_op = MaxTarget(S)
<1> DEFINE TargetIds(U) == {o.target_op : o \in U} \cup {Null}
           P == {U \in SUBSET S : \E m \in TargetIds(U) : \A n \in TargetIds(U) : m >= n}
<1>0. \A o \in S : o.target_op \in Nat
  BY OpFields
<1>1. ASSUME NEW U \in SUBSET S, \A V \in SUBSET U : V # U => V \in P
      PROVE  U \in P
  <2>1. CASE U = {}
    BY <2>1 DEF Null
  <2>2. CASE U # {}
    <3>1. PICK x \in U : TRUE
      BY <2>2
    <3>2. U \ {x} \in P
      BY <1>1, <3>1
    <3>3. PICK m \in TargetIds(U \ {x}) : \A n \in TargetIds(U \ {x}) : m >= n
      BY <3>2
    <3>4. \A n \in TargetIds(U) : n \in TargetIds(U \ {x}) \/ n = x.target_op
      OBVIOUS
    <3>5. m \in TargetIds(U) /\ x.target_op \in TargetIds(U) /\ m \in Nat /\ x.target_op \in Nat
      BY <1>0, <3>1 DEF Null
    <3>6. \A n \in TargetIds(U \ {x}) : n \in Nat
      BY <1>0 DEF Null
    <3> HIDE DEF TargetIds
    <3>7. (\A n \in TargetIds(U) : m >= n) \/ (\A n \in TargetIds(U) : x.target_op >= n)
      BY <3>3, <3>4, <3>5, <3>6
    <3> QED BY <3>5, <3>7
  <2> QED BY <2>1, <2>2
<1>2. \A U \in SUBSET S : U \in P
  <2> HIDE DEF P
  <2>1. \A U \in SUBSET S : (\A V \in SUBSET U : V # U => V \in P) => U \in P
    BY <1>1
  <2> QED BY <2>1, SubsetInduction
<1>3. \E m \in TargetIds(S) : \A n \in TargetIds(S) : m >= n
  BY <1>2
<1>4. MaxTarget(S) \in TargetIds(S) /\ \A n \in TargetIds(S) : MaxTarget(S) >= n
  BY <1>3 DEF MaxTarget, Max
<1>5. \A o \in S : o.target_op <= MaxTarget(S)
  <2>1. \A o \in S : MaxTarget(S) >= o.target_op
    BY <1>4
  <2>2. MaxTarget(S) \in Nat
    BY <1>0, <1>4 DEF Null
  <2> HIDE DEF TargetIds
  <2> QED BY <1>0, <2>1, <2>2
<1> QED BY <1>0, <1>4, <1>5 DEF Null

(* Operations whose ids are bounded are finitely many. *)
LEMMA BoundedOps ==
  ASSUME NEW S, S \subseteq Op, NEW n \in Nat, \A o \in S : o.op_id <= n,
         \A o, p \in S : o.op_id = p.op_id => o = p
  PROVE  IsOps(S)
<1> DEFINE f == [o \in S |-> o.op_id]
<1>1. f \in Injection(S, 0..n)
  <2>1. \A o \in S : o.op_id \in 0..n
    BY OpFields
  <2> QED BY <2>1 DEF Injection, IsInjective
<1>2. IsFiniteSet(0..n)
  BY FS_Interval
<1>3. IsFiniteSet(S)
  <2> HIDE DEF f
  <2> QED BY <1>1, <1>2, FS_Injection
<1> QED BY <1>3 DEF IsOps
-----------------------------------------------------------------------------
(***************************************************************************)
(* A compacted bucket D and the operations L as they were written. t       *)
(* supersedes q when it is a later operation on the same row. What is      *)
(* still a PUT or REMOVE is as it was written; a MOVE stands for an        *)
(* operation that was superseded up to its target; a CLEAR stands for the  *)
(* start of L, all of whose PUTs are superseded up to its own id or its    *)
(* target; nothing of L is missing; and targets are operations of L.       *)
(***************************************************************************)
Supersedes(t, q) == t.row = q.row /\ q.op_id < t.op_id

KeepsWritten(D, L) == \A o \in D : o.op \in {"PUT", "REMOVE"} => o \in L

MovesSuperseded(D, L) ==
  \A o \in D : o.op = "MOVE" =>
    \E q, t \in L : q.op_id = o.op_id /\ q.checksum = o.checksum /\ Supersedes(t, q) /\ t.op_id <= o.target_op

ClearsStart(D, L) ==
  \A o \in D : o.op = "CLEAR" =>
    /\ \A p \in D : o.op_id <= p.op_id
    /\ o.checksum = SumChecksums(Between(L, 0, o.op_id))
    /\ \A q \in L : q.op = "PUT" /\ q.op_id <= o.op_id =>
         \E t \in L : Supersedes(t, q) /\ (t.op_id <= o.op_id \/ t.op_id <= o.target_op)

NothingMissing(D, L) ==
  \A q \in L : \E d \in D : d.op_id = q.op_id \/ (d.op = "CLEAR" /\ q.op_id <= d.op_id)

TargetsWritten(D, L) == \A o \in D : o.target_op # Null => \E t \in L : t.op_id = o.target_op

LogOK(D, L) ==
  KeepsWritten(D, L) /\ MovesSuperseded(D, L) /\ ClearsStart(D, L) /\ NothingMissing(D, L) /\ TargetsWritten(D, L)

\* A bucket and its log, as sets.
IsLogged(D, L) == IsOps(D) /\ IsOps(L) /\ L \subseteq PutOp \cup RemoveOp

LEMMA LoggedFields ==
  ASSUME NEW D, NEW L, IsLogged(D, L)
  PROVE  /\ \A o \in D \cup L : /\ o \in Op /\ o.op_id \in Nat /\ o.op_id > 0 /\ o.checksum \in Nat /\ o.target_op \in Nat
                                /\ o.op \in {"PUT", "REMOVE", "MOVE", "CLEAR"}
         /\ \A q \in L : q.op \in {"PUT", "REMOVE"} /\ q.target_op = 0
         /\ \A o, p \in D : o.op_id = p.op_id => o = p
         /\ \A o, p \in L : o.op_id = p.op_id => o = p
<1>1. \A o \in D \cup L : o \in Op
  BY DEF IsLogged, IsOps
<1>2. \A q \in L : q.op \in {"PUT", "REMOVE"} /\ q.target_op = 0
  BY DEF IsLogged, PutOp, RemoveOp, Null
<1> QED BY <1>1, <1>2, OpFields DEF IsLogged, IsOps

LEMMA BetweenIs ==
  ASSUME NEW S, IsOps(S), NEW a, NEW k
  PROVE  /\ Between(S, a, k) \subseteq S /\ IsOps(Between(S, a, k))
         /\ Between(S, a, k) \subseteq Op /\ IsFiniteSet(Between(S, a, k))
BY FS_Subset DEF Between, IsOps

(***************************************************************************)
(* After the last CLEAR, a compacted bucket has the operations of the log, *)
(* one for one, and their checksums.                                       *)
(***************************************************************************)
LEMMA SumTail ==
  ASSUME NEW D, NEW L, IsLogged(D, L), LogOK(D, L), NEW a \in Nat, NEW k \in Nat,
         \A o \in D : o.op = "CLEAR" => o.op_id <= a
  PROVE  SumChecksums(Between(D, a, k)) = SumChecksums(Between(L, a, k))
<1> DEFINE S == Between(D, a, k)
           T == Between(L, a, k)
<1>1. IsOps(S) /\ IsOps(T)
  BY BetweenIs DEF IsLogged
<1>2. ASSUME NEW o \in S PROVE \E p \in T : p.op_id = o.op_id /\ p.checksum = o.checksum
  <2>1. o \in D /\ a < o.op_id /\ o.op_id <= k
    BY DEF Between
  <2>2. o.op # "CLEAR" /\ o.op_id \in Nat
    BY <2>1, LoggedFields
  <2>3. \E q \in L : q.op_id = o.op_id /\ q.checksum = o.checksum
    BY <2>1, <2>2, LoggedFields DEF LogOK, KeepsWritten, MovesSuperseded
  <2> QED BY <2>1, <2>3 DEF Between
<1>3. ASSUME NEW q \in T PROVE \E o \in S : o.op_id = q.op_id
  <2>1. q \in L /\ a < q.op_id /\ q.op_id <= k /\ q.op_id \in Nat
    BY LoggedFields DEF Between
  <2>2. PICK d \in D : d.op_id = q.op_id \/ (d.op = "CLEAR" /\ q.op_id <= d.op_id)
    BY <2>1 DEF LogOK, NothingMissing
  <2>3. d.op_id \in Nat
    BY LoggedFields
  <2>4. d.op_id = q.op_id
    BY <2>1, <2>2, <2>3
  <2> QED BY <2>1, <2>4 DEF Between
<1> HIDE DEF S, T
<1>4. SumChecksums(S) = SumChecksums(T)
  BY <1>1, <1>2, <1>3, SumSame
<1> QED BY <1>4 DEF S, T

(***************************************************************************)
(* What a client has that never met a compaction.                          *)
(***************************************************************************)
Live(L, k) == {p \in L : p.op = "PUT" /\ p.op_id <= k /\ \A q \in L : q.op_id <= k => ~Supersedes(q, p)}

LEMMA EmptyIs == EmptyBucket \in Reduced /\ EmptyBucket.puts = {} /\ ReducedChecksum(EmptyBucket) = 0
BY FS_EmptySet, SumEmpty DEF EmptyBucket, Reduced, ReducedChecksum

LEMMA ReduceLog ==
  ASSUME NEW D, NEW L, IsLogged(D, L), NEW k \in Nat
  PROVE  LET r == Reduce(EmptyBucket, Between(L, 0, k))
         IN  /\ r \in Reduced
             /\ r.puts = Live(L, k)
             /\ ReducedChecksum(r) = SumChecksums(Between(L, 0, k))
<1> DEFINE S == Between(L, 0, k)
           r == Reduce(EmptyBucket, S)
<1>1. IsOps(S) /\ S \subseteq Op /\ IsFiniteSet(S)
  BY BetweenIs DEF IsLogged
<1>2. \A q \in L : q.op \in {"PUT", "REMOVE"} /\ q.op_id \in Nat /\ q.op_id > 0
  BY LoggedFields
<1>3. S = {q \in L : q.op_id <= k}
  BY <1>2 DEF Between
<1>4. r \in Reduced /\ r.puts = PutsAfter(EmptyBucket, S)
  BY <1>1, EmptyIs, ReduceStep, ReducePuts
<1>5. PutsAfter(EmptyBucket, S) = Live(L, k)
  <2>1. \A p, q \in L : Kills(q, p) <=> q.row = p.row
    BY <1>2 DEF Kills
  <2>2. \A p, q \in L : (q.op_id > p.op_id => ~Kills(q, p)) <=> ~Supersedes(q, p)
    BY <1>2, <2>1 DEF Supersedes
  <2>3. PutsAfter(EmptyBucket, S) = {p \in S : p.op = "PUT" /\ \A q \in S : q.op_id > p.op_id => ~Kills(q, p)}
    BY EmptyIs DEF PutsAfter
  <2>4. PutsAfter(EmptyBucket, S) = {p \in S : p.op = "PUT" /\ \A q \in S : ~Supersedes(q, p)}
    BY <1>3, <2>2, <2>3
  <2> QED BY <1>3, <2>4 DEF Live
<1>6. \A o \in S : o.op # "CLEAR"
  BY <1>2, <1>3
<1>7. SumChecksums(S) \in Nat
  BY <1>1, SumType
<1> HIDE DEF S
<1>8. ReducedChecksum(r) = SumChecksums(S)
  BY <1>1, <1>6, <1>7, EmptyIs, ReduceSum
<1> QED BY <1>4, <1>5, <1>8 DEF S

\* The last operation of L that supersedes p, up to k.
LEMMA LastSuperseding ==
  ASSUME NEW D, NEW L, IsLogged(D, L), NEW k \in Nat, NEW p, p.op_id \in Nat, NEW q \in L, q.op_id <= k, Supersedes(q, p)
  PROVE  \E t \in L : /\ t.op_id <= k /\ Supersedes(t, p)
                      /\ \A u \in L : u.op_id <= k => ~Supersedes(u, t)
<1> DEFINE later == {u \in L : u.op_id <= k /\ Supersedes(u, p)}
           t == LastOp(later)
<1>1. later \subseteq Op /\ IsFiniteSet(later) /\ q \in later
  BY FS_Subset DEF IsLogged, IsOps
<1>2. t \in later /\ \A u \in later : u.op_id <= t.op_id
  BY <1>1, LastOpMax
<1>3. t \in L /\ t.op_id <= k /\ t.row = p.row /\ p.op_id < t.op_id /\ t.op_id \in Nat
  BY <1>2, LoggedFields DEF Supersedes
<1>4. ASSUME NEW u \in L, u.op_id <= k, Supersedes(u, t) PROVE FALSE
  <2>1. u.row = p.row /\ t.op_id < u.op_id /\ u.op_id \in Nat
    BY <1>3, <1>4, LoggedFields DEF Supersedes
  <2>2. p.op_id < u.op_id => u.op_id <= t.op_id
    BY <1>2, <1>4, <2>1 DEF Supersedes
  <2> HIDE DEF t
  <2>3. p.op_id < u.op_id
    BY <1>3, <2>1
  <2> QED BY <1>3, <2>1, <2>2, <2>3
<1> HIDE DEF t
<1> QED BY <1>3, <1>4 DEF Supersedes

(***************************************************************************)
(* A client at a reads up to k: what it finds of the log there, when no    *)
(* CLEAR has overtaken k and nothing it reads invalidates k.               *)
(***************************************************************************)
IsCurrentRead(D, L, a, k) ==
  /\ IsLogged(D, L) /\ LogOK(D, L) /\ a \in Nat /\ k \in Nat /\ a <= k
  /\ \A o \in D : o.op = "CLEAR" => o.op_id <= k
  /\ \A o \in Between(D, a, k) : o.target_op <= k

LEMMA ReadFinds ==
  ASSUME NEW D, NEW L, NEW a, NEW k, IsCurrentRead(D, L, a, k), NEW p \in L, a < p.op_id, p.op_id <= k
  PROVE  \/ p \in Between(D, a, k)
         \/ \E t \in L : t.op_id <= k /\ Supersedes(t, p)
         \/ \E c \in Between(D, a, k) : c.op = "CLEAR" /\ p.op_id <= c.op_id
<1>1. IsLogged(D, L) /\ LogOK(D, L) /\ a \in Nat /\ k \in Nat /\ p.op_id \in Nat
  BY LoggedFields DEF IsCurrentRead
<1>2. PICK d \in D : d.op_id = p.op_id \/ (d.op = "CLEAR" /\ p.op_id <= d.op_id)
  BY <1>1 DEF LogOK, NothingMissing
<1>3. d.op_id \in Nat /\ d.op \in {"PUT", "REMOVE", "MOVE", "CLEAR"} /\ d.target_op \in Nat
  BY <1>1, LoggedFields
<1>4. CASE d.op = "CLEAR"
  <2>1. d.op_id <= k /\ p.op_id <= d.op_id
    BY <1>1, <1>2, <1>3, <1>4 DEF IsCurrentRead
  <2>2. d \in Between(D, a, k)
    BY <1>1, <1>3, <2>1 DEF Between
  <2> QED BY <1>4, <2>1, <2>2
<1>5. CASE d.op \in {"PUT", "REMOVE"}
  <2>1. d = p
    BY <1>1, <1>2, <1>5, LoggedFields DEF LogOK, KeepsWritten
  <2> QED BY <2>1 DEF Between
<1>6. CASE d.op = "MOVE"
  <2>1. d.op_id = p.op_id /\ d \in Between(D, a, k)
    BY <1>2, <1>6 DEF Between
  <2>2. PICK q, t \in L : q.op_id = d.op_id /\ Supersedes(t, q) /\ t.op_id <= d.target_op
    BY <1>1, <1>6 DEF LogOK, MovesSuperseded
  <2>3. q = p
    BY <1>1, <2>1, <2>2, LoggedFields
  <2>4. d.target_op <= k /\ t.op_id \in Nat
    BY <1>1, <2>1, LoggedFields DEF IsCurrentRead
  <2>5. t.op_id <= k
    BY <1>1, <1>3, <2>2, <2>4
  <2> QED BY <2>2, <2>3, <2>5
<1> QED BY <1>3, <1>4, <1>5, <1>6

LEMMA ClearedPut ==
  ASSUME NEW D, NEW L, NEW a, NEW k, IsCurrentRead(D, L, a, k), NEW c \in Between(D, a, k), c.op = "CLEAR",
         NEW p \in L, p.op = "PUT", p.op_id <= c.op_id
  PROVE  \E t \in L : t.op_id <= k /\ Supersedes(t, p)
<1>1. c \in D /\ c.op_id <= k /\ c.target_op <= k /\ IsLogged(D, L) /\ LogOK(D, L) /\ k \in Nat
  BY DEF IsCurrentRead, Between
<1>2. PICK t \in L : Supersedes(t, p) /\ (t.op_id <= c.op_id \/ t.op_id <= c.target_op)
  BY <1>1 DEF LogOK, ClearsStart
<1>3. t.op_id \in Nat /\ c.op_id \in Nat /\ c.target_op \in Nat
  BY <1>1, LoggedFields
<1> QED BY <1>1, <1>2, <1>3

LEMMA ReadKills ==
  ASSUME NEW D, NEW L, NEW a, NEW k, IsCurrentRead(D, L, a, k), NEW p, p.op_id \in Nat,
         NEW q \in L, a < q.op_id, q.op_id <= k, Supersedes(q, p)
  PROVE  \E d \in Between(D, a, k) : Kills(d, p) /\ d.op_id > p.op_id
<1>1. IsLogged(D, L) /\ a \in Nat /\ k \in Nat /\ q.op_id \in Nat
  BY LoggedFields DEF IsCurrentRead
<1>2. PICK t \in L : /\ t.op_id <= k /\ Supersedes(t, p)
                     /\ \A u \in L : u.op_id <= k => ~Supersedes(u, t)
                     /\ q.op_id <= t.op_id
  <2>1. CASE \A u \in L : u.op_id <= k => ~Supersedes(u, q)
    BY <1>1, <2>1
  <2>2. CASE \E u \in L : u.op_id <= k /\ Supersedes(u, q)
    <3>1. PICK t \in L : t.op_id <= k /\ Supersedes(t, q) /\ \A u \in L : u.op_id <= k => ~Supersedes(u, t)
      BY <1>1, <2>2, LastSuperseding
    <3>2. t.op_id \in Nat
      BY <1>1, LoggedFields
    <3>3. Supersedes(t, p) /\ q.op_id <= t.op_id
      BY <1>1, <3>1, <3>2 DEF Supersedes
    <3> QED BY <3>1, <3>3
  <2> QED BY <2>1, <2>2
<1>3. t.op_id \in Nat /\ t.op \in {"PUT", "REMOVE"} /\ a < t.op_id
  BY <1>1, <1>2, LoggedFields
<1>4. t \in Between(D, a, k) \/ \E c \in Between(D, a, k) : c.op = "CLEAR" /\ t.op_id <= c.op_id
  BY <1>2, <1>3, ReadFinds
<1>5. Kills(t, p) /\ t.op_id > p.op_id
  BY <1>2, <1>3 DEF Kills, Supersedes
<1>6. \A c \in Between(D, a, k) : c.op_id \in Nat
  BY <1>1, LoggedFields DEF Between
<1> QED BY <1>3, <1>4, <1>5, <1>6 DEF Kills

LEMMA ReadPuts ==
  ASSUME NEW D, NEW L, NEW a, NEW k, IsCurrentRead(D, L, a, k), NEW r \in Reduced, r.puts = Live(L, a)
  PROVE  Reduce(r, Between(D, a, k)).puts = Live(L, k)
<1> DEFINE S == Between(D, a, k)
<1>1. IsLogged(D, L) /\ LogOK(D, L) /\ a \in Nat /\ k \in Nat /\ a <= k
  BY DEF IsCurrentRead
<1>2. Reduce(r, S).puts = PutsAfter(r, S)
  BY <1>1, BetweenIs, ReducePuts DEF IsLogged
<1>3. \A p \in L : p.op_id \in Nat /\ p.op \in {"PUT", "REMOVE"}
  BY <1>1, LoggedFields
<1>4. \A d \in S : d \in D /\ d.op_id \in Nat /\ a < d.op_id /\ d.op_id <= k
  BY <1>1, LoggedFields DEF Between
<1>5. \A d \in S : d.op \in {"PUT", "REMOVE"} => d \in L
  BY <1>1, <1>4 DEF LogOK, KeepsWritten
<1>7. ASSUME NEW p \in PutsAfter(r, S) PROVE p \in Live(L, k)
  <2>1. CASE p \in r.puts /\ \A q \in S : ~Kills(q, p)
    <3>1. p \in L /\ p.op = "PUT" /\ p.op_id <= a /\ \A q \in L : q.op_id <= a => ~Supersedes(q, p)
      BY <2>1 DEF Live
    <3>2. ASSUME NEW q \in L, q.op_id <= k, Supersedes(q, p) PROVE FALSE
      <4>1. a < q.op_id
        BY <1>1, <1>3, <3>1, <3>2
      <4> QED BY <1>3, <2>1, <3>1, <3>2, <4>1, ReadKills
    <3> QED BY <1>1, <1>3, <3>1, <3>2 DEF Live
  <2>2. CASE p \in S /\ p.op = "PUT" /\ \A q \in S : q.op_id > p.op_id => ~Kills(q, p)
    <3>1. p \in L /\ p.op_id <= k /\ a < p.op_id /\ p.op_id \in Nat
      BY <1>4, <1>5, <2>2
    <3>2. ASSUME NEW q \in L, q.op_id <= k, Supersedes(q, p) PROVE FALSE
      <4>1. a < q.op_id
        BY <1>1, <1>3, <3>1, <3>2 DEF Supersedes
      <4>2. \E d \in S : Kills(d, p) /\ d.op_id > p.op_id
        BY <3>1, <3>2, <4>1, ReadKills
      <4> QED BY <2>2, <4>2
    <3> QED BY <2>2, <3>1, <3>2 DEF Live
  <2> QED BY <2>1, <2>2 DEF PutsAfter
<1>8. ASSUME NEW p \in Live(L, k) PROVE p \in PutsAfter(r, S)
  <2>1. p \in L /\ p.op = "PUT" /\ p.op_id <= k /\ p.op_id \in Nat /\ \A q \in L : q.op_id <= k => ~Supersedes(q, p)
    BY <1>3 DEF Live
  <2>2. ASSUME NEW d \in S, d.op_id > p.op_id, Kills(d, p) PROVE FALSE
    <3>1. CASE d.op = "CLEAR"
      <4>1. p.op_id <= d.op_id
        BY <1>4, <2>1, <2>2
      <4> QED BY <2>1, <3>1, <4>1, ClearedPut
    <3>2. CASE d.op # "CLEAR"
      <4>1. d \in L /\ d.row = p.row
        BY <1>5, <2>2, <3>2 DEF Kills
      <4> QED BY <1>4, <2>1, <2>2, <4>1 DEF Supersedes
    <3> QED BY <3>1, <3>2
  <2>3. CASE p.op_id <= a
    <3>1. p \in r.puts
      BY <1>1, <1>3, <2>1, <2>3 DEF Live
    <3>2. \A d \in S : d.op_id > p.op_id
      BY <1>1, <1>4, <2>1, <2>3
    <3> QED BY <2>2, <3>1, <3>2 DEF PutsAfter
  <2>4. CASE a < p.op_id
    <3>1. p \in S
      <4>1. p \in S \/ \E c \in S : c.op = "CLEAR" /\ p.op_id <= c.op_id
        BY <2>1, <2>4, ReadFinds
      <4> QED BY <2>1, <4>1, ClearedPut
    <3> QED BY <2>1, <2>2, <3>1 DEF PutsAfter
  <2> QED BY <1>1, <2>1, <2>3, <2>4
<1> HIDE DEF S
<1>9. PutsAfter(r, S) = Live(L, k)
  BY <1>7, <1>8
<1> QED BY <1>2, <1>9 DEF S

LEMMA SumSplit ==
  ASSUME NEW S, IsOps(S), NEW a \in Nat, NEW b \in Nat, NEW k \in Nat, a <= b, b <= k
  PROVE  SumChecksums(Between(S, a, k)) = SumChecksums(Between(S, a, b)) + SumChecksums(Between(S, b, k))
<1> DEFINE A == Between(S, a, b)
           B == Between(S, b, k)
<1>1. A \subseteq Op /\ IsFiniteSet(A) /\ B \subseteq Op /\ IsFiniteSet(B)
  BY BetweenIs
<1>2. \A o \in S : o.op_id \in Nat
  BY OpFields DEF IsOps
<1>3. A \cap B = {} /\ Between(S, a, k) = A \cup B
  BY <1>2 DEF Between
<1> HIDE DEF A, B
<1>4. SumChecksums(A \cup B) = SumChecksums(A) + SumChecksums(B)
  BY <1>1, <1>3, SumUnion
<1> QED BY <1>3, <1>4 DEF A, B

\* A CLEAR and what follows it have the checksums of the whole log.
LEMMA SumFromClear ==
  ASSUME NEW D, NEW L, IsLogged(D, L), LogOK(D, L), NEW k \in Nat, NEW c \in D, c.op = "CLEAR", c.op_id <= k
  PROVE  /\ c.checksum + SumChecksums(Between(D, c.op_id, k)) = SumChecksums(Between(L, 0, k))
         /\ SumChecksums({o \in D : c.op_id <= o.op_id /\ o.op_id <= k}) = SumChecksums(Between(L, 0, k))
<1> DEFINE x == c.op_id
           T == Between(D, x, k)
           F == {o \in D : x <= o.op_id /\ o.op_id <= k}
<1>1. x \in Nat /\ \A o, p \in D : o.op_id = p.op_id => o = p
  BY LoggedFields
<1>2. \A o \in D : o.op = "CLEAR" => o.op_id <= x
  BY DEF LogOK, ClearsStart
<1>3. c.checksum = SumChecksums(Between(L, 0, x))
  BY DEF LogOK, ClearsStart
<1>4. SumChecksums(T) = SumChecksums(Between(L, x, k))
  BY <1>1, <1>2, SumTail
<1>5. SumChecksums(Between(L, 0, k)) = SumChecksums(Between(L, 0, x)) + SumChecksums(Between(L, x, k))
  BY <1>1, SumSplit DEF IsLogged
<1>6. c \in F /\ F \ {c} = T
  <2>1. \A o \in D : o.op_id \in Nat /\ (o.op_id = x => o = c)
    BY <1>1, LoggedFields
  <2>2. c \in F
    BY <2>1
  <2>3. \A o \in D : (x <= o.op_id /\ o # c) <=> x < o.op_id
    BY <1>1, <2>1
  <2> HIDE DEF x
  <2> QED BY <2>2, <2>3 DEF Between
<1>7. IsFiniteSet(F) /\ \A o \in F : o.checksum \in Nat
  BY LoggedFields, FS_Subset DEF IsLogged, IsOps
<1>8. SumChecksums(F) = c.checksum + SumChecksums(F \ {c})
  <2> HIDE DEF F
  <2> QED BY <1>6, <1>7, SumRemove
<1> HIDE DEF F, T
<1> QED BY <1>3, <1>4, <1>5, <1>6, <1>8 DEF F, T

LEMMA ReadSum ==
  ASSUME NEW D, NEW L, NEW a, NEW k, IsCurrentRead(D, L, a, k),
         NEW r \in Reduced, ReducedChecksum(r) = SumChecksums(Between(L, 0, a))
  PROVE  ReducedChecksum(Reduce(r, Between(D, a, k))) = SumChecksums(Between(L, 0, k))
<1> DEFINE S == Between(D, a, k)
<1>1. IsLogged(D, L) /\ LogOK(D, L) /\ a \in Nat /\ k \in Nat /\ a <= k /\ IsOps(S)
      /\ \A o \in D : o.op = "CLEAR" => o.op_id <= k
  BY BetweenIs DEF IsCurrentRead, IsLogged
<1>2. \A o \in D : o.op_id \in Nat
  BY <1>1, LoggedFields
<1>3. CASE \A o \in S : o.op # "CLEAR"
  <2>1. \A o \in D : o.op = "CLEAR" => o.op_id <= a
    BY <1>1, <1>2, <1>3 DEF Between
  <2>2. SumChecksums(S) = SumChecksums(Between(L, a, k))
    BY <1>1, <2>1, SumTail
  <2>3. ReducedChecksum(Reduce(r, S)) = ReducedChecksum(r) + SumChecksums(S)
    <3> HIDE DEF S
    <3> QED BY <1>1, <1>3, ReduceSum
  <2>4. SumChecksums(Between(L, 0, k)) = SumChecksums(Between(L, 0, a)) + SumChecksums(Between(L, a, k))
    BY <1>1, SumSplit DEF IsLogged
  <2> QED BY <2>2, <2>3, <2>4
<1>4. CASE \E c \in S : c.op = "CLEAR"
  <2>1. PICK c \in S : c.op = "CLEAR"
    BY <1>4
  <2>2. c \in D /\ c.op_id <= k /\ a < c.op_id /\ c.op_id \in Nat
    BY <1>2, <2>1 DEF Between
  <2>3. \A o \in S : o.op = "CLEAR" => o.op_id <= c.op_id
    BY <1>1, <2>1, <2>2 DEF LogOK, ClearsStart, Between
  <2>4. ReducedChecksum(Reduce(r, S)) = SumChecksums({o \in S : o.op_id >= c.op_id})
    <3> HIDE DEF S
    <3> QED BY <1>1, <2>1, <2>3, ReduceSumClear
  <2>5. {o \in S : o.op_id >= c.op_id} = {o \in D : c.op_id <= o.op_id /\ o.op_id <= k}
    BY <1>1, <1>2, <2>2 DEF Between
  <2>6. SumChecksums({o \in D : c.op_id <= o.op_id /\ o.op_id <= k}) = SumChecksums(Between(L, 0, k))
    BY <1>1, <2>1, <2>2, SumFromClear
  <2> QED BY <2>4, <2>5, <2>6
<1> QED BY <1>3, <1>4

\* A current read leaves a client with what one has that never met a compaction.
LEMMA ReadConverges ==
  ASSUME NEW D, NEW L, NEW a, NEW k, IsCurrentRead(D, L, a, k)
  PROVE  Reduce(Reduce(EmptyBucket, Between(L, 0, a)), Between(D, a, k)) = Reduce(EmptyBucket, Between(L, 0, k))
<1> DEFINE r == Reduce(EmptyBucket, Between(L, 0, a))
           s == Reduce(EmptyBucket, Between(L, 0, k))
           n == Reduce(r, Between(D, a, k))
<1>1. IsLogged(D, L) /\ a \in Nat /\ k \in Nat
  BY DEF IsCurrentRead
<1>2. r \in Reduced /\ r.puts = Live(L, a) /\ ReducedChecksum(r) = SumChecksums(Between(L, 0, a))
  BY <1>1, ReduceLog
<1>3. s \in Reduced /\ s.puts = Live(L, k) /\ ReducedChecksum(s) = SumChecksums(Between(L, 0, k))
  BY <1>1, ReduceLog
<1> HIDE DEF r, s
<1>4. n \in Reduced
  BY <1>1, <1>2, BetweenIs, ReduceStep DEF IsLogged
<1>5. n.puts = s.puts /\ ReducedChecksum(n) = ReducedChecksum(s)
  BY <1>2, <1>3, ReadPuts, ReadSum
<1> HIDE DEF n
<1>6. n = s
  BY <1>3, <1>4, <1>5, ReducedEqual
<1> QED BY <1>6 DEF n, r, s

(* An operation is appended to a bucket and to its log. *)
LEMMA AppendLogged ==
  ASSUME NEW D, NEW L, IsLogged(D, L), LogOK(D, L), NEW n \in Nat, \A o \in D \cup L : o.op_id <= n,
         NEW op \in PutOp \cup RemoveOp, op.op_id = n + 1
  PROVE  LogOK(D \cup {op}, L \cup {op})
<1> DEFINE E == D \cup {op}
           M == L \cup {op}
<1>1. op.op \in {"PUT", "REMOVE"}
  BY DEF PutOp, RemoveOp
<1>2. \A o \in D \cup L : o.op_id \in Nat /\ o.op_id <= n
  BY LoggedFields
<1>3. KeepsWritten(E, M)
  BY DEF LogOK, KeepsWritten
<1>4. MovesSuperseded(E, M)
  <2> SUFFICES ASSUME NEW o \in D, o.op = "MOVE"
               PROVE  \E q, t \in M : q.op_id = o.op_id /\ q.checksum = o.checksum /\ Supersedes(t, q) /\ t.op_id <= o.target_op
    BY <1>1 DEF MovesSuperseded
  <2> QED BY DEF LogOK, MovesSuperseded
<1>5. ClearsStart(E, M)
  <2> SUFFICES ASSUME NEW o \in D, o.op = "CLEAR"
               PROVE  /\ \A p \in E : o.op_id <= p.op_id
                      /\ o.checksum = SumChecksums(Between(M, 0, o.op_id))
                      /\ \A q \in M : q.op = "PUT" /\ q.op_id <= o.op_id =>
                           \E t \in M : Supersedes(t, q) /\ (t.op_id <= o.op_id \/ t.op_id <= o.target_op)
    BY <1>1 DEF ClearsStart
  <2>1. o.op_id \in Nat /\ o.op_id <= n /\ ~(op.op_id <= o.op_id)
    BY <1>2
  <2>2. \A p \in E : o.op_id <= p.op_id
    BY <1>2, <2>1 DEF LogOK, ClearsStart
  <2>3. Between(M, 0, o.op_id) = Between(L, 0, o.op_id)
    BY <2>1 DEF Between
  <2> QED BY <2>1, <2>2, <2>3 DEF LogOK, ClearsStart
<1>6. NothingMissing(E, M)
  BY DEF LogOK, NothingMissing
<1>7. TargetsWritten(E, M)
  <2>1. op.target_op = Null
    BY DEF PutOp, RemoveOp
  <2> QED BY <2>1 DEF LogOK, TargetsWritten
<1> QED BY <1>3, <1>4, <1>5, <1>6, <1>7 DEF LogOK

(***************************************************************************)
(* A bucket is rewritten, an operation for each. What stands for an        *)
(* operation has its id and checksum: it is the operation itself, or one   *)
(* whose target was raised, or a MOVE for what was superseded up to its    *)
(* target.                                                                 *)
(***************************************************************************)
StandsFor(e, o, L) ==
  /\ e.op_id = o.op_id /\ e.checksum = o.checksum
  /\ e.target_op # Null => \E t \in L : t.op_id = e.target_op
  /\ \/ e = o
     \/ e.op = o.op /\ e.op \in {"MOVE", "CLEAR"} /\ o.target_op <= e.target_op
     \/ e.op = "MOVE" /\ o.op \in {"PUT", "REMOVE"} /\ \E t \in L : Supersedes(t, o) /\ t.op_id <= e.target_op

LEMMA RewriteLogged ==
  ASSUME NEW D, NEW L, IsLogged(D, L), LogOK(D, L), NEW E,
         \A e \in E : e.op_id \in Nat /\ e.target_op \in Nat,
         \A e \in E : \E o \in D : StandsFor(e, o, L),
         \A o \in D : \E e \in E : StandsFor(e, o, L)
  PROVE  LogOK(E, L)
<1>1. /\ \A q \in L : q.op \in {"PUT", "REMOVE"} /\ q.op_id \in Nat
      /\ \A o \in D \cup E : o.op_id \in Nat /\ o.target_op \in Nat
  BY LoggedFields
<1>2. ASSUME NEW e \in E, e.op \in {"PUT", "REMOVE"} PROVE e \in L
  <2>1. PICK o \in D : StandsFor(e, o, L)
    OBVIOUS
  <2>2. e = o
    BY <1>2, <2>1 DEF StandsFor
  <2> QED BY <1>2, <2>2 DEF LogOK, KeepsWritten
<1>3. ASSUME NEW e \in E, e.op = "MOVE"
      PROVE  \E q, t \in L : q.op_id = e.op_id /\ q.checksum = e.checksum /\ Supersedes(t, q) /\ t.op_id <= e.target_op
  <2>1. PICK o \in D : StandsFor(e, o, L)
    OBVIOUS
  <2>2. CASE o.op = "MOVE"
    <3>1. PICK q, t \in L : q.op_id = o.op_id /\ q.checksum = o.checksum /\ Supersedes(t, q) /\ t.op_id <= o.target_op
      BY <2>2 DEF LogOK, MovesSuperseded
    <3>2. o.target_op <= e.target_op /\ e.op_id = o.op_id /\ e.checksum = o.checksum
      BY <1>1, <2>1, <2>2 DEF StandsFor
    <3>3. t.op_id <= e.target_op
      BY <1>1, <3>1, <3>2
    <3> QED BY <3>1, <3>2, <3>3
  <2>3. CASE o.op # "MOVE"
    <3>1. e.op_id = o.op_id /\ e.checksum = o.checksum /\ o.op \in {"PUT", "REMOVE"}
          /\ \E t \in L : Supersedes(t, o) /\ t.op_id <= e.target_op
      BY <1>3, <2>1, <2>3 DEF StandsFor
    <3>2. o \in L
      BY <3>1 DEF LogOK, KeepsWritten
    <3> QED BY <3>1, <3>2
  <2> QED BY <2>2, <2>3
<1>4. ASSUME NEW e \in E, e.op = "CLEAR"
      PROVE  /\ \A p \in E : e.op_id <= p.op_id
             /\ e.checksum = SumChecksums(Between(L, 0, e.op_id))
             /\ \A q \in L : q.op = "PUT" /\ q.op_id <= e.op_id =>
                  \E t \in L : Supersedes(t, q) /\ (t.op_id <= e.op_id \/ t.op_id <= e.target_op)
  <2>1. PICK o \in D : StandsFor(e, o, L)
    OBVIOUS
  <2>2. o.op = "CLEAR" /\ e.op_id = o.op_id /\ e.checksum = o.checksum /\ o.target_op <= e.target_op
    BY <1>1, <1>4, <2>1 DEF StandsFor
  <2>3. \A p \in E : e.op_id <= p.op_id
    <3> SUFFICES ASSUME NEW p \in E PROVE o.op_id <= p.op_id
      BY <2>2
    <3>1. PICK x \in D : p.op_id = x.op_id
      BY DEF StandsFor
    <3> QED BY <2>2, <3>1 DEF LogOK, ClearsStart
  <2>4. ASSUME NEW q \in L, q.op = "PUT", q.op_id <= e.op_id
        PROVE  \E t \in L : Supersedes(t, q) /\ (t.op_id <= e.op_id \/ t.op_id <= e.target_op)
    <3>1. PICK t \in L : Supersedes(t, q) /\ (t.op_id <= o.op_id \/ t.op_id <= o.target_op)
      BY <2>2, <2>4 DEF LogOK, ClearsStart
    <3>2. t.op_id <= e.op_id \/ t.op_id <= e.target_op
      BY <1>1, <2>2, <3>1
    <3> QED BY <3>1, <3>2
  <2> QED BY <2>2, <2>3, <2>4 DEF LogOK, ClearsStart
<1>5. NothingMissing(E, L)
  <2> SUFFICES ASSUME NEW q \in L PROVE \E e \in E : e.op_id = q.op_id \/ (e.op = "CLEAR" /\ q.op_id <= e.op_id)
    BY DEF NothingMissing
  <2>1. PICK d \in D : d.op_id = q.op_id \/ (d.op = "CLEAR" /\ q.op_id <= d.op_id)
    BY DEF LogOK, NothingMissing
  <2>2. PICK e \in E : StandsFor(e, d, L)
    OBVIOUS
  <2>3. e.op_id = d.op_id /\ (d.op = "CLEAR" => e.op = "CLEAR")
    BY <2>2 DEF StandsFor
  <2> QED BY <2>1, <2>3
<1>6. TargetsWritten(E, L)
  BY DEF TargetsWritten, StandsFor
<1>7. KeepsWritten(E, L) /\ MovesSuperseded(E, L) /\ ClearsStart(E, L)
  BY <1>2, <1>3, <1>4 DEF KeepsWritten, MovesSuperseded, ClearsStart
<1> QED BY <1>5, <1>6, <1>7 DEF LogOK

(***************************************************************************)
(* A CLEAR for a start of the bucket without PUTs, with the id of the last *)
(* operation it stands for, their checksums, and a target past theirs.     *)
(***************************************************************************)
IsClearFor(k, ops, L) ==
  /\ k.op = "CLEAR" /\ k.checksum = SumChecksums(ops) /\ k.target_op \in Nat
  /\ \A o \in ops : o.op_id <= k.op_id /\ o.target_op <= k.target_op
  /\ \E o \in ops : o.op_id = k.op_id
  /\ k.target_op # Null => \E t \in L : t.op_id = k.target_op

LEMMA ClearLogged ==
  ASSUME NEW D, NEW L, IsLogged(D, L), LogOK(D, L), NEW ops, ops \subseteq D, ops # {},
         \A o \in ops : o.op # "PUT", \A o \in ops, e \in D : e.op_id <= o.op_id => e \in ops,
         NEW k, IsClearFor(k, ops, L)
  PROVE  LogOK((D \ ops) \cup {k}, L)
<1> DEFINE E == (D \ ops) \cup {k}
<1>2. /\ k.op = "CLEAR" /\ k.checksum = SumChecksums(ops)
      /\ \A o \in ops : o.op_id <= k.op_id
      /\ \E o \in ops : o.op_id = k.op_id
  BY DEF IsClearFor
<1>3. k.target_op \in Nat /\ \A o \in ops : o.target_op <= k.target_op
  BY DEF IsClearFor
<1>4. \A o \in D : o.op_id \in Nat /\ o.op_id > 0 /\ o.target_op \in Nat /\ o.op \in {"PUT", "REMOVE", "MOVE", "CLEAR"}
  BY LoggedFields
<1>5. \A q \in L : q.op_id \in Nat /\ q.op_id > 0
  BY LoggedFields
<1>6. k.op_id \in Nat /\ \A o \in D : o \in ops <=> o.op_id <= k.op_id
  BY <1>2, <1>4
<1>7. \A o \in D : o.op = "CLEAR" => o \in ops
  BY <1>2, <1>6 DEF LogOK, ClearsStart
<1>8. KeepsWritten(E, L)
  BY <1>2 DEF LogOK, KeepsWritten
<1>9. MovesSuperseded(E, L)
  BY <1>2 DEF LogOK, MovesSuperseded
<1>10. SumChecksums(ops) = SumChecksums(Between(L, 0, k.op_id))
  <2>1. CASE \A o \in D : o.op # "CLEAR"
    <3>1. ops = Between(D, 0, k.op_id)
      BY <1>4, <1>6 DEF Between
    <3> QED BY <1>6, <2>1, <3>1, SumTail
  <2>2. CASE \E c \in D : c.op = "CLEAR"
    <3>1. PICK c \in D : c.op = "CLEAR"
      BY <2>2
    <3>2. c.op_id <= k.op_id
      BY <1>6, <1>7, <3>1
    <3>3. ops = {o \in D : c.op_id <= o.op_id /\ o.op_id <= k.op_id}
      BY <1>6, <3>1 DEF LogOK, ClearsStart
    <3> QED BY <1>6, <3>1, <3>2, <3>3, SumFromClear
  <2> QED BY <2>1, <2>2
<1>11. ASSUME NEW q \in L, q.op = "PUT", q.op_id <= k.op_id
       PROVE  \E t \in L : Supersedes(t, q) /\ (t.op_id <= k.op_id \/ t.op_id <= k.target_op)
  <2>1. PICK d \in D : d.op_id = q.op_id \/ (d.op = "CLEAR" /\ q.op_id <= d.op_id)
    BY DEF LogOK, NothingMissing
  <2>2. CASE d.op = "CLEAR"
    <3>1. q.op_id <= d.op_id
      BY <1>5, <2>1
    <3>2. PICK t \in L : Supersedes(t, q) /\ (t.op_id <= d.op_id \/ t.op_id <= d.target_op)
      BY <1>11, <2>2, <3>1 DEF LogOK, ClearsStart
    <3>3. d \in ops /\ d.op_id <= k.op_id /\ d.target_op <= k.target_op
      BY <1>3, <1>6, <1>7, <2>2
    <3>4. t.op_id \in Nat /\ d.op_id \in Nat /\ d.target_op \in Nat /\ k.op_id \in Nat /\ k.target_op \in Nat
      BY <1>3, <1>4, <1>5, <1>6
    <3> QED BY <3>2, <3>3, <3>4
  <2>3. CASE d.op # "CLEAR"
    <3>1. d.op_id = q.op_id /\ d \in ops
      BY <1>6, <1>11, <2>1, <2>3
    <3>2. d.op \notin {"PUT", "REMOVE"}
      <4> SUFFICES ASSUME d.op \in {"PUT", "REMOVE"} PROVE FALSE
        OBVIOUS
      <4>1. d = q
        BY <3>1, LoggedFields DEF LogOK, KeepsWritten
      <4> QED BY <1>11, <3>1, <4>1
    <3>3. d.op = "MOVE"
      BY <1>4, <2>3, <3>2
    <3>4. PICK p, t \in L : p.op_id = d.op_id /\ Supersedes(t, p) /\ t.op_id <= d.target_op
      BY <3>3 DEF LogOK, MovesSuperseded
    <3>5. p = q
      BY <3>1, <3>4, LoggedFields
    <3>6. t.op_id <= k.target_op
      BY <1>3, <1>4, <1>5, <3>1, <3>4
    <3> QED BY <3>4, <3>5, <3>6
  <2> QED BY <2>2, <2>3
<1>12. ClearsStart(E, L)
  <2>1. \A p \in E : k.op_id <= p.op_id
    BY <1>4, <1>6
  <2>2. \A o \in E : o.op = "CLEAR" => o = k
    BY <1>7
  <2> QED BY <1>2, <1>10, <1>11, <2>1, <2>2 DEF ClearsStart
<1>13. NothingMissing(E, L)
  <2> SUFFICES ASSUME NEW q \in L PROVE \E d \in E : d.op_id = q.op_id \/ (d.op = "CLEAR" /\ q.op_id <= d.op_id)
    BY DEF NothingMissing
  <2>1. PICK d \in D : d.op_id = q.op_id \/ (d.op = "CLEAR" /\ q.op_id <= d.op_id)
    BY DEF LogOK, NothingMissing
  <2>2. CASE d \in ops
    <3>1. q.op_id <= k.op_id
      BY <1>4, <1>5, <1>6, <2>1, <2>2
    <3> QED BY <1>2, <3>1
  <2>3. CASE d \notin ops
    BY <2>1, <2>3
  <2> QED BY <2>2, <2>3
<1>14. TargetsWritten(E, L)
  BY DEF IsClearFor, LogOK, TargetsWritten
<1>15. LogOK(E, L)
  BY <1>8, <1>9, <1>12, <1>13, <1>14 DEF LogOK
<1> QED BY <1>15

Doc == {d \in [ops : SUBSET Op, target_op : Nat] : d.ops # {} /\ IsFiniteSet(d.ops)}
DocsOK(docs) == IsFiniteSet(docs) /\ docs \subseteq Doc
-----------------------------------------------------------------------------
(***************************************************************************)
(* Sets of numbers, operations and documents.                              *)
(***************************************************************************)
LEMMA HasMax ==
  ASSUME NEW S, IsFiniteSet(S), S \subseteq Nat, S # {}
  PROVE  \E m \in S : \A n \in S : m >= n
<1> DEFINE IsMax(m, T) == m \in T /\ \A n \in T : m >= n
           P == {T \in SUBSET S : T = {} \/ \E m : IsMax(m, T)}
<1>1. ASSUME NEW T \in SUBSET S, \A U \in SUBSET T : U # T => U \in P
      PROVE  T \in P
  <2> SUFFICES ASSUME T # {} PROVE \E m : IsMax(m, T)
    OBVIOUS
  <2>1. PICK x : x \in T
    OBVIOUS
  <2>2. CASE T = {x}
    <3>1. IsMax(x, T)
      BY <2>1, <2>2
    <3> QED BY <3>1
  <2>3. CASE T # {x}
    <3>1. T \ {x} \in P /\ T \ {x} # {}
      BY <1>1, <2>1, <2>3
    <3>2. PICK m : IsMax(m, T \ {x})
      BY <3>1
    <3>3. IsMax(m, T) \/ IsMax(x, T)
      BY <2>1, <3>2
    <3> QED BY <3>3
  <2> QED BY <2>2, <2>3
<1>2. S \in P
  <2> HIDE DEF P
  <2> QED BY <1>1, SubsetInduction
<1> QED BY <1>2

LEMMA MaxIs ==
  ASSUME NEW S, IsFiniteSet(S), S \subseteq Nat, S # {}
  PROVE  Max(S) \in S /\ \A n \in S : Max(S) >= n
BY HasMax DEF Max

LEMMA ImageFinite ==
  ASSUME NEW S, IsFiniteSet(S), NEW f, f = [x \in S |-> f[x]]
  PROVE  IsFiniteSet({f[x] : x \in S})
<1>1. f \in Surjection(S, {f[x] : x \in S})
  BY DEF Surjection
<1> QED BY <1>1, FS_Surjection

LEMMA HasMin ==
  ASSUME NEW S, IsFiniteSet(S), S \subseteq Nat, S # {}
  PROVE  \E m \in S : \A n \in S : m <= n
<1>1. PICK k \in S : \A n \in S : k >= n
  BY HasMax
<1> DEFINE T == {k - n : n \in S}
           f == [n \in S |-> k - n]
<1>2. IsFiniteSet(T)
  <2>1. f = [x \in S |-> f[x]] /\ T = {f[x] : x \in S}
    OBVIOUS
  <2> HIDE DEF f, T
  <2> QED BY <2>1, ImageFinite
<1>3. T \subseteq Nat /\ T # {}
  <2>1. \A n \in S : k - n \in Nat
    BY <1>1
  <2> QED BY <2>1
<1>4. PICK t \in T : \A u \in T : t >= u
  <2> HIDE DEF T
  <2> QED BY <1>2, <1>3, HasMax
<1>5. PICK m \in S : t = k - m
  OBVIOUS
<1>6. ASSUME NEW n \in S PROVE m <= n
  <2>1. k - n \in T /\ k \in Nat /\ m \in Nat /\ n \in Nat
    OBVIOUS
  <2> HIDE DEF T
  <2>2. k - m >= k - n
    BY <1>4, <1>5, <2>1
  <2> QED BY <2>1, <2>2
<1> QED BY <1>6

\* The lowest operation of a set
LEMMA FirstOpMin ==
  ASSUME NEW S, IsFiniteSet(S), S \subseteq Op, S # {}
  PROVE  FirstOp(S) \in S /\ \A p \in S : FirstOp(S).op_id <= p.op_id
<1> DEFINE ids == {o.op_id : o \in S}
<1>1. IsFiniteSet(ids) /\ ids \subseteq Nat /\ ids # {}
  <2> DEFINE f == [o \in S |-> o.op_id]
  <2>1. IsFiniteSet(ids)
    <3>1. f = [x \in S |-> f[x]] /\ ids = {f[x] : x \in S}
      OBVIOUS
    <3> HIDE DEF f, ids
    <3> QED BY <3>1, ImageFinite
  <2>2. \A o \in S : o.op_id \in Nat
    BY OpFields
  <2> QED BY <2>1, <2>2
<1>2. PICK m \in ids : \A n \in ids : m <= n
  <2> HIDE DEF ids
  <2> QED BY <1>1, HasMin
<1>3. \E o \in S : \A p \in S : o.op_id <= p.op_id
  BY <1>2
<1> QED BY <1>3 DEF FirstOp

LEMMA DocFields ==
  ASSUME NEW d \in Doc
  PROVE  /\ d.ops \subseteq Op /\ d.ops # {} /\ IsFiniteSet(d.ops) /\ d.target_op \in Nat
         /\ DocId(d) \in Nat /\ DocId(d) > 0
<1>1. d.ops \subseteq Op /\ d.ops # {} /\ IsFiniteSet(d.ops) /\ d.target_op \in Nat
  BY DEF Doc
<1>2. LastOp(d.ops) \in Op
  BY <1>1, LastOpMax
<1> QED BY <1>1, <1>2, OpFields DEF DocId

LEMMA IdsOK ==
  ASSUME NEW docs, DocsOK(docs)
  PROVE  IsFiniteSet(Ids(docs)) /\ Ids(docs) \subseteq Nat /\ \A id \in Ids(docs) : id > 0
<1> DEFINE f == [d \in docs |-> DocId(d)]
<1>1. IsFiniteSet(Ids(docs))
  <2>1. f = [x \in docs |-> f[x]] /\ Ids(docs) = {f[x] : x \in docs}
    BY DEF Ids
  <2> HIDE DEF f
  <2> QED BY <2>1, ImageFinite DEF DocsOK
<1>2. \A d \in docs : DocId(d) \in Nat /\ DocId(d) > 0
  BY DocFields DEF DocsOK
<1> QED BY <1>1, <1>2 DEF Ids

\* The document with the highest or the lowest id
LEMMA EndDocs ==
  ASSUME NEW docs, DocsOK(docs), docs # {}
  PROVE  /\ \E e \in docs : \A f \in docs : DocId(f) <= DocId(e)
         /\ \E e \in docs : \A f \in docs : DocId(e) <= DocId(f)
<1>1. IsFiniteSet(Ids(docs)) /\ Ids(docs) \subseteq Nat /\ Ids(docs) # {}
  BY IdsOK DEF Ids
<1>2. PICK m \in Ids(docs) : \A n \in Ids(docs) : m >= n
  BY <1>1, HasMax
<1>3. PICK k \in Ids(docs) : \A n \in Ids(docs) : k <= n
  BY <1>1, HasMin
<1>4. (\E e \in docs : m = DocId(e)) /\ (\E e \in docs : k = DocId(e)) /\ \A f \in docs : DocId(f) \in Ids(docs)
  BY DEF Ids
<1>5. \A f \in docs : DocId(f) <= m /\ k <= DocId(f)
  BY <1>1, <1>2, <1>3, <1>4
<1> QED BY <1>4, <1>5

LEMMA OpsOfOK ==
  ASSUME NEW docs, DocsOK(docs)
  PROVE  OpsOf(docs) \subseteq Op /\ IsFiniteSet(OpsOf(docs)) /\ (docs # {} => OpsOf(docs) # {})
<1> DEFINE sets == {d.ops : d \in docs}
           f == [d \in docs |-> d.ops]
<1>1. \A d \in docs : d.ops \subseteq Op /\ d.ops # {} /\ IsFiniteSet(d.ops)
  BY DocFields DEF DocsOK
<1>2. IsFiniteSet(sets)
  <2>1. f = [x \in docs |-> f[x]] /\ sets = {f[x] : x \in docs}
    OBVIOUS
  <2> HIDE DEF f, sets
  <2> QED BY <2>1, ImageFinite DEF DocsOK
<1>3. \A T \in sets : IsFiniteSet(T)
  BY <1>1
<1>4. IsFiniteSet(UNION sets)
  <2> HIDE DEF sets
  <2> QED BY <1>2, <1>3, FS_UNION
<1>5. OpsOf(docs) = UNION sets
  BY DEF OpsOf
<1> QED BY <1>1, <1>4, <1>5

LEMMA TargetsOK ==
  ASSUME NEW docs, DocsOK(docs)
  PROVE  Targets(docs) \in Nat
<1> DEFINE S == {d.target_op : d \in docs}
           f == [d \in docs |-> d.target_op]
<1>1. IsFiniteSet(S)
  <2>1. f = [x \in docs |-> f[x]] /\ S = {f[x] : x \in docs}
    OBVIOUS
  <2> HIDE DEF f, S
  <2> QED BY <2>1, ImageFinite DEF DocsOK
<1>2. IsFiniteSet(S \cup {Null})
  BY <1>1, FS_AddElement
<1>3. S \subseteq Nat
  <2>1. \A d \in docs : d.target_op \in Nat
    BY DocFields DEF DocsOK
  <2> QED BY <2>1
<1>4. S \cup {Null} \subseteq Nat /\ S \cup {Null} # {}
  BY <1>3 DEF Null
<1>5. Max(S \cup {Null}) \in Nat
  <2> HIDE DEF S
  <2> QED BY <1>2, <1>4, MaxIs
<1> QED BY <1>5 DEF Targets

LEMMA MaxOfTwo ==
  ASSUME NEW m \in Nat, NEW n \in Nat
  PROVE  Max({m, n}) \in Nat
<1>1. IsFiniteSet({m, n})
  <2>1. IsFiniteSet({m})
    BY FS_Singleton
  <2>2. IsFiniteSet({m} \cup {n}) /\ {m} \cup {n} = {m, n}
    BY <2>1, FS_AddElement
  <2> QED BY <2>2
<1> QED BY <1>1, MaxIs

LEMMA Documents ==
  ASSUME NEW ops, ops \subseteq Op, ops # {}, IsFiniteSet(ops), NEW target \in Nat
  PROVE  Document(ops, target) \in Doc
BY DEF Document, Doc

\* A part of what is stored, and its replacement
LEMMA DocsPart ==
  ASSUME NEW docs, DocsOK(docs), NEW part, part \subseteq docs
  PROVE  DocsOK(part)
BY FS_Subset DEF DocsOK

LEMMA DocsReplaced ==
  ASSUME NEW docs, DocsOK(docs), NEW old, NEW new, DocsOK(new)
  PROVE  DocsOK((docs \ old) \cup new)
<1>1. IsFiniteSet(docs \ old)
  BY FS_Subset DEF DocsOK
<1>2. IsFiniteSet((docs \ old) \cup new)
  BY <1>1, FS_Union DEF DocsOK
<1> QED BY <1>2 DEF DocsOK

LEMMA OneDoc ==
  ASSUME NEW d \in Doc
  PROVE  DocsOK({d})
BY FS_Singleton DEF DocsOK

-----------------------------------------------------------------------------
(***************************************************************************)
(* Documents as a compacted bucket. A document has a target for all of its *)
(* operations; a reader is asked to reach it for a MOVE or a CLEAR. The    *)
(* operations with these targets are those of a compacted bucket: LogOK    *)
(* says what it makes of its log.                                          *)
(***************************************************************************)
IsBefore(d, e) == \A o \in d.ops, p \in e.ops : o.op_id < p.op_id
InOrder(docs) == \A d, e \in docs : d = e \/ IsBefore(d, e) \/ IsBefore(e, d)
HasId(ops, id) == \E o \in ops : o.op_id = id
HasOwnIds(ops) == \A o, p \in ops : o.op_id = p.op_id => o = p

Given(o, target) == IF o.op \in {"MOVE", "CLEAR"} THEN [o EXCEPT !.target_op = target] ELSE o
GivenOps(d) == {Given(o, d.target_op) : o \in d.ops}
View(docs) == UNION {GivenOps(d) : d \in docs}

IsTarget(id, L) == id = Null \/ HasId(L, id)

IsDocOf(d, L, n) ==
  /\ HasOwnIds(d.ops)
  /\ \A o \in d.ops : o.target_op = Null /\ o.op_id <= n
  /\ IsTarget(d.target_op, L)

\* The operations as they were written, with ids up to n
IsLog(L, n) == IsOps(L) /\ L \subseteq PutOp \cup RemoveOp /\ n \in Nat /\ \A o \in L : o.op_id <= n

IsStore(D, L, n) ==
  /\ DocsOK(D) /\ InOrder(D)
  /\ \A d \in D : IsDocOf(d, L, n)
  /\ LogOK(View(D), L)

LEMMA GivenFields ==
  ASSUME NEW o \in Op, NEW target \in Nat, o.target_op = Null
  PROVE  /\ Given(o, target) \in Op
         /\ Given(o, target).op = o.op /\ Given(o, target).op_id = o.op_id /\ Given(o, target).checksum = o.checksum
         /\ Given(o, target).row = o.row
         /\ Given(o, target).target_op = IF o.op \in {"MOVE", "CLEAR"} THEN target ELSE Null
         /\ o.op \in {"PUT", "REMOVE"} => Given(o, target) = o
<1> DEFINE I == Nat \ {0}
<1>1. CASE o.op \in {"MOVE", "CLEAR"}
  <2>1. o \in [op : {o.op}, op_id : I, row : {None}, data : {None}, checksum : Nat, target_op : Nat]
    BY <1>1 DEF Op, PutOp, RemoveOp, MoveOp, ClearOp
  <2> DEFINE t == [o EXCEPT !.target_op = target]
  <2>2. /\ t \in [op : {o.op}, op_id : I, row : {None}, data : {None}, checksum : Nat, target_op : Nat]
        /\ t.op = o.op /\ t.op_id = o.op_id /\ t.checksum = o.checksum /\ t.row = o.row /\ t.target_op = target
    <3> HIDE DEF I
    <3> QED BY <2>1
  <2>3. Given(o, target) = t
    BY <1>1 DEF Given
  <2>4. t \in MoveOp \cup ClearOp
    <3> HIDE DEF t
    <3> QED BY <1>1, <2>2 DEF MoveOp, ClearOp
  <2> HIDE DEF t
  <2> QED BY <1>1, <2>2, <2>3, <2>4 DEF Op
<1>2. CASE o.op \notin {"MOVE", "CLEAR"}
  BY <1>2 DEF Given
<1> QED BY <1>1, <1>2

LEMMA ViewHas ==
  ASSUME NEW D, NEW d \in D, NEW o \in d.ops
  PROVE  Given(o, d.target_op) \in View(D)
BY DEF View, GivenOps

LEMMA ViewFrom ==
  ASSUME NEW D, NEW v \in View(D)
  PROVE  \E d \in D : \E o \in d.ops : v = Given(o, d.target_op)
BY DEF View, GivenOps

LEMMA ViewUnion ==
  ASSUME NEW A, NEW B
  PROVE  View(A \cup B) = View(A) \cup View(B)
BY DEF View

LEMMA ViewOne ==
  ASSUME NEW ops, NEW target
  PROVE  View({Document(ops, target)}) = {Given(o, target) : o \in ops}
BY DEF View, GivenOps, Document

LEMMA StoreDoc ==
  ASSUME NEW D, NEW L, NEW n, IsStore(D, L, n), NEW d \in D
  PROVE  /\ d \in Doc /\ d.ops \subseteq Op /\ d.ops # {} /\ IsFiniteSet(d.ops) /\ d.target_op \in Nat
         /\ HasOwnIds(d.ops) /\ IsTarget(d.target_op, L)
         /\ \A o \in d.ops : /\ o \in Op /\ o.op_id \in Nat /\ o.op_id > 0 /\ o.op_id <= n /\ o.target_op = Null
                             /\ o.op \in {"PUT", "REMOVE", "MOVE", "CLEAR"}
<1>1. d \in Doc /\ IsDocOf(d, L, n)
  BY DEF IsStore, DocsOK
<1>2. d.ops \subseteq Op /\ d.ops # {} /\ IsFiniteSet(d.ops) /\ d.target_op \in Nat
  BY <1>1, DocFields
<1> QED BY <1>1, <1>2, OpFields DEF IsDocOf

LEMMA SameDoc ==
  ASSUME NEW D, NEW L, NEW n, IsStore(D, L, n), NEW d \in D, NEW e \in D, NEW o \in d.ops, NEW p \in e.ops, o.op_id = p.op_id
  PROVE  d = e /\ o = p
<1>1. o.op_id \in Nat /\ HasOwnIds(d.ops)
  BY StoreDoc
<1>2. d = e
  BY <1>1 DEF IsStore, InOrder, IsBefore
<1> QED BY <1>1, <1>2 DEF HasOwnIds

\* Fields of what a reader of documents is given
LEMMA ViewFields ==
  ASSUME NEW D, NEW L, NEW n \in Nat, IsStore(D, L, n), NEW d \in D, NEW o \in d.ops
  PROVE  LET v == Given(o, d.target_op)
         IN /\ v \in Op /\ v.op = o.op /\ v.op_id = o.op_id /\ v.checksum = o.checksum /\ v.row = o.row
            /\ v.target_op = IF o.op \in {"MOVE", "CLEAR"} THEN d.target_op ELSE Null
            /\ o.op \in {"PUT", "REMOVE"} => v = o
<1>1. o \in Op /\ d.target_op \in Nat /\ o.target_op = Null
  BY StoreDoc
<1> QED BY <1>1, GivenFields

LEMMA ViewIsOps ==
  ASSUME NEW D, NEW L, NEW n \in Nat, IsStore(D, L, n)
  PROVE  IsOps(View(D))
<1>1. ASSUME NEW v \in View(D) PROVE v \in Op /\ v.op_id <= n
  <2>1. PICK d \in D : \E o \in d.ops : v = Given(o, d.target_op)
    BY ViewFrom
  <2>2. PICK o \in d.ops : v = Given(o, d.target_op)
    BY <2>1
  <2>3. o.op_id <= n
    BY StoreDoc
  <2> QED BY <2>2, <2>3, ViewFields
<1>2. ASSUME NEW u \in View(D), NEW v \in View(D), u.op_id = v.op_id PROVE u = v
  <2>d. PICK d \in D : \E o \in d.ops : u = Given(o, d.target_op)
    BY ViewFrom
  <2>1. PICK o \in d.ops : u = Given(o, d.target_op)
    BY <2>d
  <2>e. PICK e \in D : \E p \in e.ops : v = Given(p, e.target_op)
    BY ViewFrom
  <2>2. PICK p \in e.ops : v = Given(p, e.target_op)
    BY <2>e
  <2>3. o.op_id = p.op_id
    BY <1>2, <2>1, <2>2, ViewFields
  <2>4. d = e /\ o = p
    BY <2>3, SameDoc
  <2> QED BY <2>1, <2>2, <2>4
<1> QED BY <1>1, <1>2, BoundedOps

LEMMA StoreLogged ==
  ASSUME NEW D, NEW L, NEW n, IsLog(L, n), IsStore(D, L, n)
  PROVE  IsLogged(View(D), L) /\ LogOK(View(D), L) /\ n \in Nat
BY ViewIsOps DEF IsLog, IsLogged, IsStore

(***************************************************************************)
(* Documents are replaced by one: it has an operation for each of theirs,  *)
(* the same or a MOVE for one that is superseded up to the target, and a   *)
(* target past theirs. No document lies between them.                      *)
(***************************************************************************)
IsMoveFor(m, o, target, L) ==
  m.op = "MOVE" /\ o.op \in {"PUT", "REMOVE"} /\ \E t \in L : Supersedes(t, o) /\ t.op_id <= target

IsRewrite(new, old, target, L) ==
  /\ new \subseteq Op /\ IsFiniteSet(new) /\ HasOwnIds(new)
  /\ \A m \in new : /\ m.target_op = Null
                    /\ \E o \in old : m.op_id = o.op_id /\ m.checksum = o.checksum /\ (m = o \/ IsMoveFor(m, o, target, L))
  /\ \A o \in old : HasId(new, o.op_id)

IsGapless(docs, D) ==
  \A d \in D \ docs : (\A e \in docs : IsBefore(d, e)) \/ (\A e \in docs : IsBefore(e, d))

LEMMA Rewritten ==
  ASSUME NEW D, NEW L, NEW n \in Nat, IsStore(D, L, n), NEW d \in D, NEW o \in d.ops, NEW target \in Nat,
         d.target_op <= target, IsTarget(target, L), NEW m \in Op, m.target_op = Null,
         m.op_id = o.op_id, m.checksum = o.checksum, m = o \/ IsMoveFor(m, o, target, L)
  PROVE  StandsFor(Given(m, target), Given(o, d.target_op), L)
<1> DEFINE v == Given(m, target)
           u == Given(o, d.target_op)
<1> SUFFICES StandsFor(v, u, L)
  OBVIOUS
<1>1. /\ v \in Op /\ v.op = m.op /\ v.op_id = m.op_id /\ v.checksum = m.checksum
      /\ v.target_op = (IF m.op \in {"MOVE", "CLEAR"} THEN target ELSE Null)
      /\ m.op \in {"PUT", "REMOVE"} => v = m
  BY GivenFields
<1>2. /\ u \in Op /\ u.op = o.op /\ u.op_id = o.op_id /\ u.checksum = o.checksum
      /\ u.target_op = (IF o.op \in {"MOVE", "CLEAR"} THEN d.target_op ELSE Null)
      /\ o.op \in {"PUT", "REMOVE"} => u = o
  BY ViewFields
<1>3. m.op \in {"PUT", "REMOVE", "MOVE", "CLEAR"}
  BY OpFields
<1> HIDE DEF v, u
<1>4. v.op_id = u.op_id /\ v.checksum = u.checksum
  BY <1>1, <1>2
<1>5. v.target_op # Null => \E t \in L : t.op_id = v.target_op
  BY <1>1 DEF IsTarget, HasId
<1>6. CASE m = o
  <2>1. CASE m.op \in {"MOVE", "CLEAR"}
    <3>1. v.op = u.op /\ v.op \in {"MOVE", "CLEAR"} /\ u.target_op <= v.target_op
      BY <1>1, <1>2, <1>6, <2>1
    <3> QED BY <1>4, <1>5, <3>1 DEF StandsFor
  <2>2. CASE m.op \in {"PUT", "REMOVE"}
    <3>1. v = u
      BY <1>1, <1>2, <1>6, <2>2
    <3> QED BY <1>4, <1>5, <3>1 DEF StandsFor
  <2> QED BY <1>3, <2>1, <2>2
<1>7. CASE IsMoveFor(m, o, target, L)
  <2>1. v.op = "MOVE" /\ u = o /\ u.op \in {"PUT", "REMOVE"} /\ v.target_op = target
    BY <1>1, <1>2, <1>7 DEF IsMoveFor
  <2> QED BY <1>4, <1>5, <1>7, <2>1 DEF StandsFor, IsMoveFor
<1> QED BY <1>6, <1>7

LEMMA StandsForItself ==
  ASSUME NEW D, NEW L, LogOK(D, L), NEW v \in D
  PROVE  StandsFor(v, v, L)
BY DEF StandsFor, LogOK, TargetsWritten

LEMMA ReplaceStore ==
  ASSUME NEW D, NEW L, NEW n, IsLog(L, n), IsStore(D, L, n), NEW P, P \subseteq D, P # {}, IsGapless(P, D),
         NEW target \in Nat, IsTarget(target, L), \A d \in P : d.target_op <= target,
         NEW ops, IsRewrite(ops, OpsOf(P), target, L)
  PROVE  ops # {} /\ IsStore((D \ P) \cup {Document(ops, target)}, L, n)
<1> DEFINE e == Document(ops, target)
           R == D \ P
           E == R \cup {e}
<1>0. n \in Nat /\ IsLogged(View(D), L) /\ LogOK(View(D), L)
  BY StoreLogged
<1>1. \A d \in P : \A o \in d.ops : o \in OpsOf(P)
  BY DEF OpsOf
<1>2. \A o \in OpsOf(P) : \E d \in P : o \in d.ops
  BY DEF OpsOf
<1>3. \A m \in ops : m \in Op /\ m.op_id \in Nat /\ m.target_op = Null
  BY OpFields DEF IsRewrite
<1>4. ops # {} /\ ops \subseteq Op /\ IsFiniteSet(ops) /\ HasOwnIds(ops)
  <2>1. PICK d \in P : TRUE
    OBVIOUS
  <2>2. PICK o \in d.ops : TRUE
    BY StoreDoc
  <2> QED BY <1>1, <2>2 DEF IsRewrite, HasId
<1>5. e \in Doc /\ e.ops = ops /\ e.target_op = target
  BY <1>4, Documents DEF Document
<1>6. \A m \in ops : \E d \in P : \E o \in d.ops :
        m.op_id = o.op_id /\ m.checksum = o.checksum /\ (m = o \/ IsMoveFor(m, o, target, L))
  BY <1>2 DEF IsRewrite
<1> HIDE DEF e
<1>7. DocsOK(E)
  BY <1>5, OneDoc, DocsReplaced DEF IsStore
<1>8. ASSUME NEW d \in R PROVE IsBefore(d, e) \/ IsBefore(e, d)
  <2>1. CASE \A f \in P : IsBefore(d, f)
    <3> SUFFICES ASSUME NEW o \in d.ops, NEW m \in ops PROVE o.op_id < m.op_id
      BY <1>5 DEF IsBefore
    <3>1. PICK f \in P : \E p \in f.ops : m.op_id = p.op_id
      BY <1>6
    <3> QED BY <2>1, <3>1 DEF IsBefore
  <2>2. CASE \A f \in P : IsBefore(f, d)
    <3> SUFFICES ASSUME NEW o \in d.ops, NEW m \in ops PROVE m.op_id < o.op_id
      BY <1>5 DEF IsBefore
    <3>1. PICK f \in P : \E p \in f.ops : m.op_id = p.op_id
      BY <1>6
    <3> QED BY <2>2, <3>1 DEF IsBefore
  <2> QED BY <2>1, <2>2 DEF IsGapless
<1>9. InOrder(E)
  BY <1>8 DEF IsStore, InOrder
<1>10. IsDocOf(e, L, n)
  <2>1. \A m \in ops : m.op_id <= n
    <3> SUFFICES ASSUME NEW m \in ops PROVE m.op_id <= n
      OBVIOUS
    <3>1. PICK d \in P : \E o \in d.ops : m.op_id = o.op_id
      BY <1>6
    <3> QED BY <3>1, StoreDoc
  <2> QED BY <1>3, <1>4, <1>5, <2>1 DEF IsDocOf
<1>11. View(E) = View(R) \cup {Given(m, target) : m \in ops} /\ View(D) = View(R) \cup View(P)
  <2>1. D = R \cup P
    OBVIOUS
  <2> HIDE DEF R
  <2>2. View(R \cup P) = View(R) \cup View(P)
    BY ViewUnion
  <2>3. View(R \cup {e}) = View(R) \cup View({e})
    BY ViewUnion
  <2>4. View({e}) = {Given(m, target) : m \in ops}
    BY ViewOne DEF e
  <2> QED BY <2>1, <2>2, <2>3, <2>4
<1> HIDE DEF E
<1>12. LogOK(View(E), L)
  <2>1. ASSUME NEW v \in View(E)
        PROVE  v.op_id \in Nat /\ v.target_op \in Nat /\ \E u \in View(D) : StandsFor(v, u, L)
    <3>1. CASE v \in View(R)
      <4>1. v \in View(D)
        BY <1>11, <3>1
      <4> QED BY <1>0, <4>1, LoggedFields, StandsForItself
    <3>2. CASE \E m \in ops : v = Given(m, target)
      <4>1. PICK m \in ops : v = Given(m, target)
        BY <3>2
      <4>2. PICK d \in P : \E o \in d.ops :
              m.op_id = o.op_id /\ m.checksum = o.checksum /\ (m = o \/ IsMoveFor(m, o, target, L))
        BY <1>6
      <4>3. PICK o \in d.ops : m.op_id = o.op_id /\ m.checksum = o.checksum /\ (m = o \/ IsMoveFor(m, o, target, L))
        BY <4>2
      <4>4. StandsFor(v, Given(o, d.target_op), L)
        BY <1>0, <1>3, <4>1, <4>3, Rewritten
      <4>5. Given(o, d.target_op) \in View(D)
        BY ViewHas
      <4>6. v \in Op
        BY <1>3, <4>1, GivenFields
      <4> QED BY <4>4, <4>5, <4>6, OpFields
    <3> QED BY <1>11, <3>1, <3>2
  <2>2. ASSUME NEW u \in View(D) PROVE \E v \in View(E) : StandsFor(v, u, L)
    <3>1. CASE u \in View(R)
      <4>1. u \in View(E)
        BY <1>11, <3>1
      <4> QED BY <1>0, <4>1, StandsForItself
    <3>2. CASE u \in View(P)
      <4>1. PICK d \in P : \E o \in d.ops : u = Given(o, d.target_op)
        BY <3>2, ViewFrom
      <4>2. PICK o \in d.ops : u = Given(o, d.target_op)
        BY <4>1
      <4>3. PICK m \in ops : m.op_id = o.op_id
        BY <1>1 DEF IsRewrite, HasId
      <4>4. PICK f \in P : \E p \in f.ops :
              m.op_id = p.op_id /\ m.checksum = p.checksum /\ (m = p \/ IsMoveFor(m, p, target, L))
        BY <1>6
      <4>5. PICK p \in f.ops : m.op_id = p.op_id /\ m.checksum = p.checksum /\ (m = p \/ IsMoveFor(m, p, target, L))
        BY <4>4
      <4>6. d = f /\ o = p
        BY <4>3, <4>5, SameDoc
      <4>7. StandsFor(Given(m, target), u, L)
        BY <1>0, <1>3, <4>2, <4>5, <4>6, Rewritten
      <4> QED BY <1>11, <4>7
    <3> QED BY <1>11, <3>1, <3>2
  <2> QED BY <1>0, <2>1, <2>2, RewriteLogged
<1>13. \A d \in E : IsDocOf(d, L, n)
  BY <1>10 DEF E, IsStore
<1>14. IsStore(E, L, n)
  BY <1>7, <1>9, <1>12, <1>13 DEF IsStore, E
<1> QED BY <1>4, <1>14 DEF E, e

(***************************************************************************)
(* The start of the bucket is cleared: the operations of its first         *)
(* document up to the one with the id m, none of which is a PUT.           *)
(***************************************************************************)
ClearOp_(id, ops) ==
  [op |-> "CLEAR", op_id |-> id, row |-> None, data |-> None, checksum |-> SumChecksums(ops), target_op |-> Null]

\* The CLEAR, and what is left of the document
ClearedDocs(prefix, rest, id, target) ==
  {Document({ClearOp_(id, prefix)}, target)} \cup (IF rest = {} THEN {} ELSE {Document(rest, target)})

LEMMA ClearOpIs ==
  ASSUME NEW id \in Nat, id > 0, NEW ops, ops \subseteq Op, IsFiniteSet(ops)
  PROVE  /\ ClearOp_(id, ops) \in Op /\ ClearOp_(id, ops).op = "CLEAR" /\ ClearOp_(id, ops).op_id = id
         /\ ClearOp_(id, ops).checksum = SumChecksums(ops) /\ ClearOp_(id, ops).target_op = Null
<1>1. SumChecksums(ops) \in Nat
  BY SumType
<1> QED BY <1>1 DEF ClearOp_, ClearOp, Op, Null

LEMMA ClearStore ==
  ASSUME NEW D, NEW L, NEW n, IsLog(L, n), IsStore(D, L, n), NEW d \in D, \A e \in D : e = d \/ IsBefore(d, e),
         NEW x \in d.ops, \A o \in d.ops : o.op_id <= x.op_id => o.op # "PUT",
         NEW prefix, NEW rest, prefix = {o \in d.ops : o.op_id <= x.op_id}, rest = d.ops \ prefix
  PROVE  IsStore((D \ {d}) \cup ClearedDocs(prefix, rest, x.op_id, d.target_op), L, n)
<1> DEFINE k == ClearOp_(x.op_id, prefix)
           target == d.target_op
           e == Document({k}, target)
           f == Document(rest, target)
           R == D \ {d}
           N == ClearedDocs(prefix, rest, x.op_id, d.target_op)
           E == R \cup N
           G == {Given(o, target) : o \in prefix}
           v == Given(k, target)
<1>0. n \in Nat /\ IsLogged(View(D), L) /\ LogOK(View(D), L)
  BY StoreLogged
<1>1. /\ d \in Doc /\ d.ops \subseteq Op /\ IsFiniteSet(d.ops) /\ target \in Nat
      /\ HasOwnIds(d.ops) /\ IsTarget(target, L)
      /\ \A o \in d.ops : /\ o \in Op /\ o.op_id \in Nat /\ o.op_id > 0 /\ o.op_id <= n /\ o.target_op = Null
                          /\ o.op \in {"PUT", "REMOVE", "MOVE", "CLEAR"}
  BY StoreDoc
<1>2. prefix \subseteq Op /\ IsFiniteSet(prefix) /\ rest \subseteq Op /\ IsFiniteSet(rest) /\ prefix \cup rest = d.ops /\ x \in prefix
  BY <1>1, FS_Subset
<1>3. /\ k \in Op /\ k.op = "CLEAR" /\ k.op_id = x.op_id
      /\ k.checksum = SumChecksums(prefix) /\ k.target_op = Null
  BY <1>1, <1>2, ClearOpIs
<1>4. /\ v \in Op /\ v.op = "CLEAR" /\ v.op_id = x.op_id
      /\ v.checksum = SumChecksums(prefix) /\ v.target_op = target
  <2> HIDE DEF k, target
  <2> QED BY <1>1, <1>3, GivenFields
<1>5. e \in Doc /\ e.ops = {k} /\ e.target_op = target
  <2>1. IsFiniteSet({k})
    BY FS_Singleton
  <2> HIDE DEF k
  <2> QED BY <1>1, <1>3, <2>1, Documents DEF Document
<1>6. rest # {} => f \in Doc
  BY <1>1, <1>2, Documents
<1>7. f.ops = rest /\ f.target_op = target
  BY DEF Document
<1> HIDE DEF k, e, f
<1>8. N = {e} \cup (IF rest = {} THEN {} ELSE {f})
  BY DEF ClearedDocs, e, f, k
<1> HIDE DEF N
<1>9. DocsOK(E)
  <2>1. DocsOK(N)
    <3>1. IsFiniteSet({e}) /\ IsFiniteSet({e} \cup {f})
      BY FS_Singleton, FS_AddElement
    <3> QED BY <1>5, <1>6, <1>8, <3>1 DEF DocsOK
  <2> QED BY <2>1, DocsReplaced DEF IsStore
<1>10. \A a \in N : \A o \in a.ops : o.op_id <= n /\ o.target_op = Null /\ (\E p \in d.ops : p.op_id = o.op_id)
  <2>1. \A o \in e.ops : o.op_id = x.op_id /\ o.target_op = Null
    BY <1>3, <1>5
  <2>2. \A o \in f.ops : o \in d.ops
    BY <1>7
  <2> QED BY <1>1, <1>8, <2>1, <2>2
<1>11. InOrder(E)
  <2>1. ASSUME NEW a \in R, NEW b \in N PROVE IsBefore(b, a)
    BY <1>10 DEF IsBefore
  <2>2. IsBefore(e, f)
    <3> SUFFICES ASSUME NEW p \in rest PROVE x.op_id < p.op_id
      BY <1>3, <1>5, <1>7 DEF IsBefore
    <3> QED BY <1>1
  <2>3. InOrder(R)
    BY DEF InOrder, IsStore
  <2> QED BY <1>8, <2>1, <2>2, <2>3 DEF InOrder
<1>12. \A a \in E : IsDocOf(a, L, n)
  <2>1. HasOwnIds(e.ops) /\ HasOwnIds(f.ops)
    BY <1>1, <1>5, <1>7 DEF HasOwnIds
  <2>2. \A a \in N : IsDocOf(a, L, n)
    BY <1>1, <1>5, <1>7, <1>8, <1>10, <2>1 DEF IsDocOf
  <2> QED BY <2>2 DEF IsStore
<1>13. View(E) = (View(D) \ G) \cup {v}
  <2>1. View(E) = View(R) \cup View(N)
    BY ViewUnion
  <2>2. View({e}) = {v} /\ View({f}) = {Given(o, target) : o \in rest}
    <3>1. View({e}) = {Given(o, target) : o \in {k}}
      BY ViewOne DEF e
    <3>2. View({f}) = {Given(o, target) : o \in rest}
      BY ViewOne DEF f
    <3> QED BY <3>1, <3>2
  <2>3. View(N) = {v} \cup {Given(o, target) : o \in rest}
    <3>1. CASE rest = {}
      BY <1>8, <2>2, <3>1
    <3>2. CASE rest # {}
      <4>1. N = {e} \cup {f}
        BY <1>8, <3>2
      <4>2. View({e} \cup {f}) = View({e}) \cup View({f})
        BY ViewUnion
      <4> QED BY <2>2, <4>1, <4>2
    <3> QED BY <3>1, <3>2
  <2>4. View(D) = View(R) \cup {Given(o, target) : o \in d.ops}
    BY DEF View, GivenOps
  <2>5. View(R) \cap G = {}
    <3> SUFFICES ASSUME NEW u \in View(R), u \in G PROVE FALSE
      OBVIOUS
    <3>1. PICK a \in R : \E o \in a.ops : u = Given(o, a.target_op)
      BY ViewFrom
    <3>2. PICK o \in a.ops : u = Given(o, a.target_op)
      BY <3>1
    <3>3. PICK p \in prefix : u = Given(p, d.target_op)
      OBVIOUS
    <3>4. a \in D /\ p \in d.ops
      BY <1>2
    <3>5. Given(o, a.target_op).op_id = o.op_id /\ Given(p, d.target_op).op_id = p.op_id
      BY <1>0, <3>4, ViewFields
    <3>6. o.op_id = p.op_id
      BY <3>2, <3>3, <3>5
    <3> QED BY <3>4, <3>6, SameDoc
  <2>6. ASSUME NEW o \in rest PROVE Given(o, target) \notin G
    <3> SUFFICES ASSUME NEW p \in prefix, Given(o, target) = Given(p, target) PROVE FALSE
      OBVIOUS
    <3>1. o.op_id = p.op_id /\ o \in d.ops /\ p \in d.ops
      BY <1>0, ViewFields
    <3> QED BY <3>1, SameDoc
  <2>7. {Given(o, target) : o \in d.ops} = G \cup {Given(o, target) : o \in rest}
    BY <1>2
  <2> DEFINE H == {Given(o, target) : o \in rest}
  <2>8. H \cap G = {}
    BY <2>6
  <2>9. View(E) = View(R) \cup ({v} \cup H) /\ View(D) = View(R) \cup (G \cup H)
    BY <2>1, <2>3, <2>4, <2>7
  <2> HIDE DEF G, H, v, E
  <2> QED BY <2>5, <2>8, <2>9
<1>14. LogOK((View(D) \ G) \cup {v}, L)
  <2>1. \A o \in prefix : /\ Given(o, target) \in View(D)
                          /\ Given(o, target).op = o.op /\ Given(o, target).op_id = o.op_id
                          /\ Given(o, target).checksum = o.checksum
                          /\ Given(o, target).target_op = (IF o.op \in {"MOVE", "CLEAR"} THEN target ELSE Null)
    BY <1>0, ViewFields, ViewHas
  <2>2. G \subseteq View(D) /\ G # {}
    BY <1>2, <2>1
  <2>3. \A g \in G : g.op # "PUT"
    BY <2>1
  <2>4. ASSUME NEW g \in G, NEW u \in View(D), u.op_id <= g.op_id PROVE u \in G
    <3>1. PICK p \in prefix : g = Given(p, target)
      OBVIOUS
    <3>2. PICK a \in D : \E o \in a.ops : u = Given(o, a.target_op)
      BY ViewFrom
    <3>3. PICK o \in a.ops : u = Given(o, a.target_op)
      BY <3>2
    <3>4. o.op_id <= p.op_id
      BY <1>0, <2>1, <2>4, <3>1, <3>3, ViewFields
    <3>5. a = d
      BY <1>1, <3>4, StoreDoc DEF IsBefore
    <3> QED BY <1>1, <3>3, <3>4, <3>5
  <2>5. SumChecksums(prefix) = SumChecksums(G)
    <3>1. IsOps(prefix)
      BY <1>1, <1>2 DEF IsOps, HasOwnIds
    <3>2. IsOps(G)
      BY <1>0, <2>2, FS_Subset DEF IsLogged, IsOps
    <3>3. \A o \in prefix : \E g \in G : g.op_id = o.op_id /\ g.checksum = o.checksum
      BY <2>1
    <3>4. \A g \in G : \E o \in prefix : g.op_id = o.op_id
      BY <2>1
    <3> HIDE DEF G
    <3> QED BY <3>1, <3>2, <3>3, <3>4, SumSame
  <2>6. IsClearFor(v, G, L)
    <3>1. \A g \in G : g.op_id <= v.op_id /\ g.target_op <= v.target_op
      <4> SUFFICES ASSUME NEW o \in prefix PROVE Given(o, target).op_id <= x.op_id /\ Given(o, target).target_op <= target
        BY <1>4
      <4> HIDE DEF target
      <4> QED BY <1>1, <2>1 DEF Null
    <3>2. \E g \in G : g.op_id = v.op_id
      BY <1>2, <1>4, <2>1
    <3>3. v.target_op # Null => \E t \in L : t.op_id = v.target_op
      BY <1>1, <1>4 DEF IsTarget, HasId
    <3> HIDE DEF G, v
    <3> QED BY <1>1, <1>4, <2>5, <3>1, <3>2, <3>3 DEF IsClearFor
  <2> HIDE DEF G, v
  <2> QED BY <1>0, <2>2, <2>3, <2>4, <2>6, ClearLogged
<1> HIDE DEF E, G, v
<1>15. IsStore(E, L, n)
  BY <1>9, <1>11, <1>12, <1>13, <1>14 DEF IsStore
<1> QED BY <1>15 DEF E, N

(* A document is added with an operation that is just written.             *)
LEMMA AppendStore ==
  ASSUME NEW D, NEW L, NEW n, IsLog(L, n), IsStore(D, L, n), NEW op \in PutOp \cup RemoveOp, op.op_id = n + 1
  PROVE  /\ IsLog(L \cup {op}, n + 1)
         /\ IsStore(D \cup {Document({op}, Null)}, L \cup {op}, n + 1)
<1> DEFINE e == Document({op}, Null)
           E == D \cup {e}
           M == L \cup {op}
<1>0. n \in Nat /\ IsLogged(View(D), L) /\ LogOK(View(D), L)
  BY StoreLogged
<1>1. op \in Op /\ op.target_op = Null /\ op.op \in {"PUT", "REMOVE"}
  BY DEF Op, PutOp, RemoveOp
<1>2. \A o \in L : o \in Op /\ o.op_id \in Nat /\ o.op_id <= n
  BY OpFields DEF IsLog, IsOps
<1>3. IsLog(M, n + 1)
  <2>1. IsOps(M)
    BY <1>0, <1>1, <1>2, FS_AddElement DEF IsLog, IsOps
  <2> QED BY <1>0, <1>2, <2>1 DEF IsLog
<1>4. e \in Doc /\ e.ops = {op} /\ e.target_op = Null
  BY <1>1, FS_Singleton, Documents DEF Document, Null
<1> HIDE DEF e
<1>5. DocsOK(E)
  BY <1>4, FS_AddElement DEF IsStore, DocsOK
<1>6. InOrder(E)
  <2>1. \A d \in D : IsBefore(d, e)
    BY <1>0, <1>4, StoreDoc DEF IsBefore
  <2> QED BY <2>1 DEF IsStore, InOrder
<1>7. \A d \in E : IsDocOf(d, M, n + 1)
  <2>1. IsDocOf(e, M, n + 1)
    BY <1>0, <1>1, <1>4 DEF IsDocOf, HasOwnIds, IsTarget
  <2>2. ASSUME NEW d \in D PROVE IsDocOf(d, M, n + 1)
    <3>1. \A o \in d.ops : o.target_op = Null /\ o.op_id <= n + 1
      BY <1>0, StoreDoc
    <3> QED BY <3>1, StoreDoc DEF IsDocOf, IsTarget, HasId
  <2> QED BY <2>1, <2>2
<1>8. View(E) = View(D) \cup {op}
  <2>1. View(E) = View(D) \cup View({e})
    BY ViewUnion
  <2>2. View({e}) = {Given(o, Null) : o \in {op}}
    BY ViewOne DEF e
  <2>3. Given(op, Null) = op
    BY <1>1 DEF Given
  <2> QED BY <2>1, <2>2, <2>3
<1>9. \A o \in View(D) \cup L : o.op_id <= n
  <2>1. ASSUME NEW v \in View(D) PROVE v.op_id <= n
    <3>1. PICK d \in D : \E o \in d.ops : v = Given(o, d.target_op)
      BY ViewFrom
    <3>2. PICK o \in d.ops : v = Given(o, d.target_op)
      BY <3>1
    <3>3. v.op_id = o.op_id /\ o.op_id <= n
      BY <1>0, <3>2, StoreDoc, ViewFields
    <3> QED BY <3>3
  <2> QED BY <1>2, <2>1
<1>10. LogOK(View(D) \cup {op}, M)
  BY <1>0, <1>9, AppendLogged
<1> HIDE DEF E, M
<1>11. IsStore(E, M, n + 1)
  BY <1>5, <1>6, <1>7, <1>8, <1>10 DEF IsStore
<1> QED BY <1>3, <1>11 DEF E, M, e

(***************************************************************************)
(* Reading. The target of an operation makes no difference to what a       *)
(* client makes of it.                                                     *)
(***************************************************************************)
LEMMA ReduceSame ==
  ASSUME NEW S, IsOps(S), NEW T, IsOps(T), NEW r \in Reduced,
         \A s \in S : \E t \in T : s.op_id = t.op_id /\ s.op = t.op /\ s.checksum = t.checksum /\ s.row = t.row
                                   /\ (s.op \in {"PUT", "REMOVE"} => s = t),
         \A t \in T : \E s \in S : s.op_id = t.op_id
  PROVE  Reduce(r, S) = Reduce(r, T)
<1> DEFINE Same(s, t) == s.op_id = t.op_id /\ s.op = t.op /\ s.checksum = t.checksum /\ s.row = t.row
                         /\ (s.op \in {"PUT", "REMOVE"} => s = t)
<1>0. /\ IsFiniteSet(S) /\ S \subseteq Op /\ IsFiniteSet(T) /\ T \subseteq Op
      /\ \A o, p \in S : o.op_id = p.op_id => o = p
      /\ \A o, p \in T : o.op_id = p.op_id => o = p
  BY DEF IsOps
<1>1. \A o \in S \cup T : o.op_id \in Nat
  BY <1>0, OpFields
<1>2. \A s \in S : \E t \in T : Same(s, t)
  OBVIOUS
<1>3. \A t \in T : \E s \in S : Same(s, t)
  BY <1>0, <1>2
<1>4. \A s, t : Same(s, t) => \A p : Kills(s, p) <=> Kills(t, p)
  BY DEF Kills
<1>5. PutsAfter(r, S) = PutsAfter(r, T)
  <2>1. ASSUME NEW p PROVE (\A q \in S : ~Kills(q, p)) <=> (\A q \in T : ~Kills(q, p))
    <3> HIDE DEF Same
    <3> QED BY <1>2, <1>3, <1>4
  <2>2. ASSUME NEW p
        PROVE (\A q \in S : q.op_id > p.op_id => ~Kills(q, p)) <=> (\A q \in T : q.op_id > p.op_id => ~Kills(q, p))
    <3>1. ASSUME NEW q \in T, q.op_id > p.op_id, Kills(q, p) PROVE \E s \in S : s.op_id > p.op_id /\ Kills(s, p)
      <4>1. PICK s \in S : Same(s, q)
        BY <1>3
      <4> QED BY <1>4, <3>1, <4>1
    <3>2. ASSUME NEW s \in S, s.op_id > p.op_id, Kills(s, p) PROVE \E q \in T : q.op_id > p.op_id /\ Kills(q, p)
      <4>1. PICK q \in T : Same(s, q)
        BY <1>2
      <4> QED BY <1>4, <3>2, <4>1
    <3> QED BY <3>1, <3>2
  <2>3. \A p : (p \in S /\ p.op = "PUT") <=> (p \in T /\ p.op = "PUT")
    BY <1>2, <1>3
  <2> HIDE DEF Same
  <2> QED BY <2>1, <2>2, <2>3 DEF PutsAfter
<1>6. Reduce(r, S).puts = Reduce(r, T).puts
  BY <1>5, ReducePuts
<1>7. ReducedChecksum(Reduce(r, S)) = ReducedChecksum(Reduce(r, T))
  <2>1. CASE \A s \in S : s.op # "CLEAR"
    <3>1. \A t \in T : t.op # "CLEAR"
      BY <1>3, <2>1
    <3>2. SumChecksums(S) = SumChecksums(T)
      BY SumSame
    <3> QED BY <2>1, <3>1, <3>2, ReduceSum
  <2>2. CASE \E s \in S : s.op = "CLEAR"
    <3> DEFINE C == {s \in S : s.op = "CLEAR"}
               c == LastOp(C)
    <3>1. C # {} /\ C \subseteq Op /\ IsFiniteSet(C)
      BY <1>0, <2>2, FS_Subset
    <3>2. c \in C /\ \A p \in C : p.op_id <= c.op_id
      <4> HIDE DEF C
      <4> QED BY <3>1, LastOpMax
    <3> HIDE DEF c
    <3>3. PICK d \in T : Same(c, d)
      BY <1>2, <3>2
    <3>4. ASSUME NEW p \in T, p.op = "CLEAR" PROVE p.op_id <= d.op_id
      <4>1. PICK s \in S : Same(s, p)
        BY <1>3
      <4>2. s.op_id = p.op_id /\ s.op = "CLEAR" /\ c.op_id = d.op_id
        BY <3>3, <3>4, <4>1
      <4> QED BY <3>2, <4>2
    <3>5. ReducedChecksum(Reduce(r, S)) = SumChecksums({o \in S : o.op_id >= c.op_id})
      BY <3>2, ReduceSumClear
    <3>6. ReducedChecksum(Reduce(r, T)) = SumChecksums({o \in T : o.op_id >= d.op_id})
      BY <3>2, <3>3, <3>4, ReduceSumClear
    <3> DEFINE A == {o \in S : o.op_id >= c.op_id}
               B == {o \in T : o.op_id >= d.op_id}
    <3>7. IsOps(A) /\ IsOps(B)
      BY <1>0, FS_Subset DEF IsOps
    <3>8. (\A o \in A : \E p \in B : p.op_id = o.op_id /\ p.checksum = o.checksum) /\ (\A p \in B : \E o \in A : p.op_id = o.op_id)
      BY <1>2, <1>3, <3>3
    <3> HIDE DEF A, B
    <3>9. SumChecksums(A) = SumChecksums(B)
      BY <3>7, <3>8, SumSame
    <3> QED BY <3>5, <3>6, <3>9 DEF A, B
  <2> QED BY <2>1, <2>2
<1> QED BY <1>0, <1>6, <1>7, ReduceStep, ReducedEqual

LEMMA TargetsMax ==
  ASSUME NEW docs, DocsOK(docs)
  PROVE  /\ Targets(docs) \in Nat /\ \A d \in docs : d.target_op <= Targets(docs)
         /\ Targets(docs) = Null \/ \E d \in docs : d.target_op = Targets(docs)
<1> DEFINE S == {d.target_op : d \in docs}
           f == [d \in docs |-> d.target_op]
<1>1. IsFiniteSet(S)
  <2>1. f = [x \in docs |-> f[x]] /\ S = {f[x] : x \in docs}
    OBVIOUS
  <2> HIDE DEF f, S
  <2> QED BY <2>1, ImageFinite DEF DocsOK
<1>2. IsFiniteSet(S \cup {Null})
  BY <1>1, FS_AddElement
<1>3. \A d \in docs : d.target_op \in Nat
  BY DocFields DEF DocsOK
<1>4. S \cup {Null} \subseteq Nat /\ S \cup {Null} # {}
  BY <1>3 DEF Null
<1>5. Max(S \cup {Null}) \in S \cup {Null} /\ \A m \in S \cup {Null} : Max(S \cup {Null}) >= m
  <2> HIDE DEF S
  <2> QED BY <1>2, <1>4, MaxIs
<1>6. Targets(docs) \in S \cup {Null} /\ \A m \in S \cup {Null} : Targets(docs) >= m
  BY <1>5 DEF Targets
<1>7. \A d \in docs : Targets(docs) >= d.target_op
  BY <1>6
<1> QED BY <1>3, <1>4, <1>6, <1>7

LEMMA DocEnds ==
  ASSUME NEW d \in Doc
  PROVE  /\ \A o \in d.ops : MinOp(d) <= o.op_id /\ o.op_id <= DocId(d)
         /\ HasId(d.ops, MinOp(d)) /\ HasId(d.ops, DocId(d))
         /\ MinOp(d) \in Nat /\ DocId(d) \in Nat
<1>1. d.ops \subseteq Op /\ d.ops # {} /\ IsFiniteSet(d.ops)
  BY DocFields
<1>2. FirstOp(d.ops) \in d.ops /\ \A p \in d.ops : FirstOp(d.ops).op_id <= p.op_id
  BY <1>1, FirstOpMin
<1>3. LastOp(d.ops) \in d.ops /\ \A p \in d.ops : p.op_id <= LastOp(d.ops).op_id
  BY <1>1, LastOpMax
<1>4. \A o \in d.ops : o.op_id \in Nat
  BY <1>1, OpFields
<1> QED BY <1>2, <1>3, <1>4 DEF MinOp, DocId, HasId

\* What a client at a is sent up to k, in documents
Sent(D, a, k) == {d \in D : DocId(d) > a /\ MinOp(d) <= k}

LEMMA ServedIs ==
  ASSUME NEW D, NEW L, NEW n, IsLog(L, n), IsStore(D, L, n), NEW a \in Nat, NEW k \in Nat, a <= k,
         \A d \in D : HasClear(d) => MinOp(d) <= k, Targets(Sent(D, a, k)) <= k
  PROVE  Reduce(Reduce(EmptyBucket, Between(L, 0, a)), Between(OpsOf(Sent(D, a, k)), a, k))
           = Reduce(EmptyBucket, Between(L, 0, k))
<1> DEFINE docs == Sent(D, a, k)
           V == View(D)
           S == Between(OpsOf(docs), a, k)
           T == Between(V, a, k)
           r == Reduce(EmptyBucket, Between(L, 0, a))
<1>0. IsLogged(V, L) /\ LogOK(V, L) /\ n \in Nat /\ IsOps(V) /\ IsOps(T)
  BY StoreLogged, BetweenIs DEF IsLogged
<1>1. ASSUME NEW v \in V
      PROVE  \E d \in D : \E o \in d.ops :
               /\ v.op = o.op /\ v.op_id = o.op_id /\ v.checksum = o.checksum /\ v.row = o.row
               /\ v.target_op = (IF o.op \in {"MOVE", "CLEAR"} THEN d.target_op ELSE Null)
               /\ (v.op \in {"PUT", "REMOVE"} => v = o)
  <2>1. PICK d \in D : \E o \in d.ops : v = Given(o, d.target_op)
    BY ViewFrom
  <2>2. PICK o \in d.ops : v = Given(o, d.target_op)
    BY <2>1
  <2> QED BY <1>0, <2>2, ViewFields
<1>2. DocsOK(docs)
  <2>1. docs \subseteq D
    BY DEF Sent
  <2> QED BY <2>1, DocsPart DEF IsStore
<1>3. ASSUME NEW d \in D, NEW o \in d.ops, a < o.op_id, o.op_id <= k PROVE d \in docs
  <2>1. d \in Doc /\ o.op_id \in Nat
    BY StoreDoc
  <2>2. MinOp(d) <= o.op_id /\ o.op_id <= DocId(d) /\ MinOp(d) \in Nat /\ DocId(d) \in Nat
    BY <2>1, DocEnds
  <2>3. DocId(d) > a /\ MinOp(d) <= k
    BY <1>3, <2>1, <2>2
  <2> QED BY <2>3 DEF Sent
<1>4. IsCurrentRead(V, L, a, k)
  <2>1. ASSUME NEW v \in V, v.op = "CLEAR" PROVE v.op_id <= k
    <3>1. PICK d \in D : \E o \in d.ops : v.op = o.op /\ v.op_id = o.op_id
      BY <1>1
    <3>2. PICK o \in d.ops : v.op = o.op /\ v.op_id = o.op_id
      BY <3>1
    <3>3. MinOp(d) <= k /\ d \in Doc /\ o.op_id \in Nat
      BY <2>1, <3>2, StoreDoc DEF HasClear
    <3>4. PICK p \in d.ops : p.op_id = MinOp(d)
      BY <3>3, DocEnds DEF HasId
    <3>5. Given(p, d.target_op) \in V /\ Given(p, d.target_op).op_id = p.op_id
      BY <1>0, ViewHas, ViewFields
    <3>6. v.op_id <= p.op_id
      BY <1>0, <2>1, <3>5 DEF LogOK, ClearsStart
    <3>7. p.op_id \in Nat
      BY StoreDoc
    <3> QED BY <3>2, <3>3, <3>4, <3>6, <3>7
  <2>2. ASSUME NEW v \in T PROVE v.target_op <= k
    <3>1. v \in V /\ a < v.op_id /\ v.op_id <= k
      BY DEF Between
    <3>2. PICK d \in D : \E o \in d.ops : v.op_id = o.op_id
                          /\ v.target_op = (IF o.op \in {"MOVE", "CLEAR"} THEN d.target_op ELSE Null)
      BY <1>1, <3>1
    <3>3. d \in docs
      BY <1>3, <3>1, <3>2
    <3>4. d.target_op <= Targets(docs) /\ Targets(docs) \in Nat
      <4> HIDE DEF docs
      <4> QED BY <1>2, <3>3, TargetsMax
    <3>5. d.target_op \in Nat
      BY StoreDoc
    <3> QED BY <3>2, <3>4, <3>5 DEF Null
  <2> QED BY <1>0, <2>1, <2>2 DEF IsCurrentRead
<1>5. IsOps(S)
  <2>1. \A d \in docs : d \in D
    BY DEF Sent
  <2>2. \A o \in S : \E d \in docs : o \in d.ops
    BY DEF Between, OpsOf
  <2>3. S \subseteq Op /\ \A o \in S : o.op_id <= n
    BY <2>1, <2>2, StoreDoc
  <2>4. \A o, p \in S : o.op_id = p.op_id => o = p
    BY <2>1, <2>2, SameDoc
  <2> HIDE DEF S, docs
  <2> QED BY <1>0, <2>3, <2>4, BoundedOps
<1>6. \A v \in T : \E o \in S : v.op_id = o.op_id /\ v.op = o.op /\ v.checksum = o.checksum /\ v.row = o.row
                                /\ (v.op \in {"PUT", "REMOVE"} => v = o)
  <2> SUFFICES ASSUME NEW v \in T
               PROVE  \E o \in S : v.op_id = o.op_id /\ v.op = o.op /\ v.checksum = o.checksum /\ v.row = o.row
                                /\ (v.op \in {"PUT", "REMOVE"} => v = o)
    OBVIOUS
  <2>1. v \in V /\ a < v.op_id /\ v.op_id <= k
    BY DEF Between
  <2>2. PICK d \in D : \E o \in d.ops : v.op = o.op /\ v.op_id = o.op_id /\ v.checksum = o.checksum /\ v.row = o.row
                                /\ (v.op \in {"PUT", "REMOVE"} => v = o)
    BY <1>1, <2>1
  <2>3. PICK o \in d.ops : v.op = o.op /\ v.op_id = o.op_id /\ v.checksum = o.checksum /\ v.row = o.row
                                /\ (v.op \in {"PUT", "REMOVE"} => v = o)
    BY <2>2
  <2>4. d \in docs
    BY <1>3, <2>1, <2>3
  <2>5. o \in S
    BY <2>1, <2>3, <2>4 DEF Between, OpsOf
  <2> QED BY <2>3, <2>5
<1>7. \A o \in S : \E v \in T : v.op_id = o.op_id
  <2> SUFFICES ASSUME NEW o \in S PROVE \E v \in T : v.op_id = o.op_id
    OBVIOUS
  <2>1. PICK d \in D : o \in d.ops
    BY DEF Between, OpsOf, Sent
  <2>2. Given(o, d.target_op) \in V /\ Given(o, d.target_op).op_id = o.op_id
    BY <1>0, <2>1, ViewHas, ViewFields
  <2>3. a < o.op_id /\ o.op_id <= k
    BY DEF Between
  <2> QED BY <2>2, <2>3 DEF Between
<1>8. r \in Reduced
  BY <1>0, ReduceLog
<1>9. Reduce(r, T) = Reduce(EmptyBucket, Between(L, 0, k))
  BY <1>4, ReadConverges
<1>10. Reduce(r, T) = Reduce(r, S)
  <2> HIDE DEF r, S, T
  <2> QED BY <1>0, <1>5, <1>6, <1>7, <1>8, ReduceSame
<1> QED BY <1>9, <1>10

-----------------------------------------------------------------------------
(***************************************************************************)
(* A pass over the documents: those it has not read yet, the group it      *)
(* works on, and those it has done with. A full compaction goes from the   *)
(* newest to the oldest, a chunk compaction the other way.                 *)
(***************************************************************************)
Ahead(kind, d, e) == IF kind = "full" THEN IsBefore(d, e) ELSE IsBefore(e, d)

IsPass(kind, unread, group, docs) ==
  /\ unread \subseteq docs /\ group \subseteq docs /\ unread \cap group = {}
  /\ \A d \in unread, e \in docs \ unread : Ahead(kind, d, e)
  /\ \A d \in group, e \in docs \ (unread \cup group) : Ahead(kind, d, e)

LEMMA PassGapless ==
  ASSUME NEW kind, NEW unread, NEW group, NEW docs, IsPass(kind, unread, group, docs)
  PROVE  IsGapless(group, docs)
BY DEF IsPass, IsGapless, Ahead

\* The next document joins the group.
LEMMA PassTakes ==
  ASSUME NEW kind, NEW unread, NEW group, NEW docs, IsPass(kind, unread, group, docs),
         NEW d \in unread, \A e \in unread : e = d \/ Ahead(kind, e, d)
  PROVE  IsPass(kind, unread \ {d}, group \cup {d}, docs)
<1>1. \A e \in unread \ {d}, f \in docs \ (unread \ {d}) : Ahead(kind, e, f)
  BY DEF IsPass
<1>2. \A e \in group \cup {d}, f \in docs \ ((unread \ {d}) \cup (group \cup {d})) : Ahead(kind, e, f)
  BY DEF IsPass
<1>3. unread \ {d} \subseteq docs /\ group \cup {d} \subseteq docs /\ (unread \ {d}) \cap (group \cup {d}) = {}
  BY DEF IsPass
<1> QED BY <1>1, <1>2, <1>3 DEF IsPass

\* The group is done, as it is or replaced.
LEMMA PassKeeps ==
  ASSUME NEW kind, NEW unread, NEW group, NEW docs, IsPass(kind, unread, group, docs)
  PROVE  IsPass(kind, unread, {}, docs)
BY DEF IsPass

LEMMA PassReplaces ==
  ASSUME NEW kind, NEW unread, NEW group, NEW docs, IsPass(kind, unread, group, docs),
         NEW e, e \notin unread, \A m \in e.ops : HasId(OpsOf(group), m.op_id)
  PROVE  IsPass(kind, unread, {}, (docs \ group) \cup {e})
<1>1. ASSUME NEW d \in unread PROVE Ahead(kind, d, e)
  <2>1. \A f \in group : Ahead(kind, d, f)
    BY DEF IsPass
  <2>2. \A m \in e.ops : \E f \in group : \E o \in f.ops : o.op_id = m.op_id
    BY DEF HasId, OpsOf
  <2> QED BY <2>1, <2>2 DEF Ahead, IsBefore
<1>2. unread \subseteq (docs \ group) \cup {e}
  BY DEF IsPass
<1>3. \A d \in unread, f \in ((docs \ group) \cup {e}) \ unread : Ahead(kind, d, f)
  BY <1>1 DEF IsPass
<1> QED BY <1>2, <1>3 DEF IsPass

\* A document is written at the end.
LEMMA PassGrows ==
  ASSUME NEW kind, NEW unread, NEW group, NEW docs, IsPass(kind, unread, group, docs),
         NEW e, \A d \in docs : IsBefore(d, e), e \notin docs
  PROVE  /\ kind = "full" => IsPass(kind, unread, group, docs \cup {e})
         /\ kind # "full" => IsPass(kind, unread \cup {e}, group, docs \cup {e})
<1>1. CASE kind = "full"
  <2>1. \A d \in docs : Ahead(kind, d, e)
    BY <1>1 DEF Ahead
  <2> QED BY <1>1, <2>1 DEF IsPass
<1>2. CASE kind # "full"
  <2>1. \A d \in docs : Ahead(kind, e, d)
    BY <1>2 DEF Ahead
  <2> QED BY <1>2, <2>1 DEF IsPass
<1> QED BY <1>1, <1>2

(***************************************************************************)
(* Ends of sets of documents.                                              *)
(***************************************************************************)
LEMMA InOrderIds ==
  ASSUME NEW docs, DocsOK(docs), InOrder(docs), NEW d \in docs, NEW e \in docs
  PROVE  /\ DocId(d) < DocId(e) <=> IsBefore(d, e)
         /\ DocId(d) = DocId(e) <=> d = e
         /\ IsBefore(d, e) => DocId(d) < MinOp(e)
         /\ DocId(d) \in Nat /\ MinOp(d) \in Nat /\ MinOp(d) <= DocId(d)
<1>1. d \in Doc /\ e \in Doc
  BY DEF DocsOK
<1>2. DocId(d) \in Nat /\ DocId(e) \in Nat /\ MinOp(d) \in Nat /\ MinOp(e) \in Nat
  BY <1>1, DocEnds
<1>3. PICK x \in d.ops : x.op_id = DocId(d)
  BY <1>1, DocEnds DEF HasId
<1>4. PICK y \in e.ops : y.op_id = DocId(e)
  BY <1>1, DocEnds DEF HasId
<1>5. IsBefore(d, e) => DocId(d) < DocId(e)
  BY <1>3, <1>4 DEF IsBefore
<1>6. IsBefore(e, d) => DocId(e) < DocId(d)
  BY <1>3, <1>4 DEF IsBefore
<1>7. d = e \/ IsBefore(d, e) \/ IsBefore(e, d)
  BY DEF InOrder
<1>8. IsBefore(d, e) => DocId(d) < MinOp(e)
  <2>1. PICK z \in e.ops : z.op_id = MinOp(e)
    BY <1>1, DocEnds DEF HasId
  <2> QED BY <1>3, <2>1 DEF IsBefore
<1>9. MinOp(d) <= DocId(d)
  BY <1>1, <1>2, <1>3, DocEnds
<1> QED BY <1>2, <1>5, <1>6, <1>7, <1>8, <1>9

LEMMA IdOfDoc ==
  ASSUME NEW docs, NEW id
  PROVE  id \in Ids(docs) <=> \E d \in docs : DocId(d) = id
BY DEF Ids

LEMMA CountLess ==
  ASSUME NEW A, NEW B, IsFiniteSet(B), A \subseteq B, A # B
  PROVE  Cardinality(A) < Cardinality(B) /\ Cardinality(A) \in Nat /\ Cardinality(B) \in Nat
BY FS_Subset, FS_CardinalityType

\* What a limit leaves out is past all that it takes in.
LEMMA LimitedIs ==
  ASSUME NEW docs, DocsOK(docs), InOrder(docs), NEW n \in Nat
  PROVE  /\ Lowest(docs, n) \subseteq docs
         /\ \A d \in Lowest(docs, n), e \in docs \ Lowest(docs, n) : IsBefore(d, e)
         /\ Highest(docs, n) \subseteq docs
         /\ \A d \in Highest(docs, n), e \in docs \ Highest(docs, n) : IsBefore(e, d)
<1> DEFINE Lower(d) == {e \in docs : DocId(e) < DocId(d)}
           Higher(d) == {e \in docs : DocId(e) > DocId(d)}
<1>1. ASSUME NEW d \in docs
      PROVE  IsFiniteSet(Lower(d)) /\ IsFiniteSet(Higher(d)) /\ Cardinality(Lower(d)) \in Nat /\ Cardinality(Higher(d)) \in Nat
  <2>1. IsFiniteSet(Lower(d)) /\ IsFiniteSet(Higher(d))
    BY FS_Subset DEF DocsOK
  <2> QED BY <2>1, FS_CardinalityType
<1>2. ASSUME NEW d \in docs, NEW e \in docs, IsBefore(e, d)
      PROVE  Cardinality(Lower(e)) <= Cardinality(Lower(d)) /\ Cardinality(Higher(d)) <= Cardinality(Higher(e))
  <2>1. DocId(e) < DocId(d) /\ \A f \in docs : DocId(f) \in Nat
    BY <1>2, InOrderIds
  <2>2. DocId(d) \in Nat /\ DocId(e) \in Nat
    BY <2>1
  <2>3. Lower(e) \subseteq Lower(d) /\ Higher(d) \subseteq Higher(e)
    BY <2>1, <2>2
  <2> HIDE DEF Lower, Higher
  <2> QED BY <1>1, <2>3, FS_Subset
<1>3. Lowest(docs, n) = {d \in docs : Cardinality(Lower(d)) < n} /\ Highest(docs, n) = {d \in docs : Cardinality(Higher(d)) < n}
  BY DEF Lowest, Highest
<1> HIDE DEF Lower, Higher
<1>4. ASSUME NEW d \in Lowest(docs, n), NEW e \in docs \ Lowest(docs, n) PROVE IsBefore(d, e)
  <2>1. ~IsBefore(e, d)
    BY <1>1, <1>2, <1>3, <1>4
  <2> QED BY <1>3, <2>1 DEF InOrder
<1>5. ASSUME NEW d \in Highest(docs, n), NEW e \in docs \ Highest(docs, n) PROVE IsBefore(e, d)
  <2>1. ~IsBefore(d, e)
    BY <1>1, <1>2, <1>3, <1>5
  <2> QED BY <1>3, <2>1 DEF InOrder
<1> QED BY <1>3, <1>4, <1>5

LEMMA OpsOfHas ==
  ASSUME NEW docs, NEW o
  PROVE  o \in OpsOf(docs) <=> \E d \in docs : o \in d.ops
BY DEF OpsOf

LEMMA MinIs ==
  ASSUME NEW S, IsFiniteSet(S), S \subseteq Nat, S # {}
  PROVE  Min(S) \in S /\ \A n \in S : Min(S) <= n
BY HasMin DEF Min

LEMMA EndIds ==
  ASSUME NEW docs, DocsOK(docs), NEW n \in Nat
  PROVE  /\ Max(Ids(docs) \cup {n}) \in Ids(docs) \cup {n} /\ \A id \in Ids(docs) \cup {n} : Max(Ids(docs) \cup {n}) >= id
         /\ Min(Ids(docs) \cup {n}) \in Ids(docs) \cup {n} /\ \A id \in Ids(docs) \cup {n} : Min(Ids(docs) \cup {n}) <= id
         /\ Max(Ids(docs) \cup {n}) \in Nat /\ Min(Ids(docs) \cup {n}) \in Nat
<1> DEFINE S == Ids(docs) \cup {n}
<1>1. IsFiniteSet(S) /\ S \subseteq Nat /\ S # {}
  BY IdsOK, FS_AddElement
<1> HIDE DEF S
<1>2. Max(S) \in S /\ (\A id \in S : Max(S) >= id) /\ Min(S) \in S /\ (\A id \in S : Min(S) <= id) /\ Max(S) \in Nat /\ Min(S) \in Nat
  BY <1>1, MaxIs, MinIs
<1> QED BY <1>2 DEF S

LEMMA MinId ==
  ASSUME NEW docs, DocsOK(docs), NEW n \in Nat, NEW m, m = Min(Ids(docs) \cup {n})
  PROVE  m \in Nat /\ m <= n /\ m \in Ids(docs) \cup {n} /\ \A id \in Ids(docs) : m <= id
<1>1. /\ Min(Ids(docs) \cup {n}) \in Ids(docs) \cup {n} /\ Min(Ids(docs) \cup {n}) \in Nat
      /\ \A id \in Ids(docs) \cup {n} : Min(Ids(docs) \cup {n}) <= id
  BY EndIds
<1>2. m \in Ids(docs) \cup {n} /\ m \in Nat /\ \A id \in Ids(docs) \cup {n} : m <= id
  BY <1>1
<1> QED BY <1>2

LEMMA MaxId ==
  ASSUME NEW docs, DocsOK(docs), NEW n \in Nat, NEW m, m = Max(Ids(docs) \cup {n})
  PROVE  m \in Nat /\ n <= m /\ m \in Ids(docs) \cup {n} /\ \A id \in Ids(docs) : id <= m
<1>1. /\ Max(Ids(docs) \cup {n}) \in Ids(docs) \cup {n} /\ Max(Ids(docs) \cup {n}) \in Nat
      /\ \A id \in Ids(docs) \cup {n} : Max(Ids(docs) \cup {n}) >= id
  BY EndIds
<1>2. m \in Ids(docs) \cup {n} /\ m \in Nat /\ \A id \in Ids(docs) \cup {n} : m >= id
  BY <1>1
<1>3. Ids(docs) \subseteq Nat
  BY IdsOK
<1> QED BY <1>2, <1>3

LEMMA StoreIds ==
  ASSUME NEW D, NEW L, NEW n \in Nat, IsStore(D, L, n), NEW d \in D
  PROVE  DocId(d) \in Nat /\ DocId(d) > 0 /\ DocId(d) <= n /\ MinOp(d) \in Nat /\ MinOp(d) <= DocId(d)
<1>1. d \in Doc
  BY StoreDoc
<1>2. PICK o \in d.ops : o.op_id = DocId(d)
  BY <1>1, DocEnds DEF HasId
<1>3. MinOp(d) <= DocId(d)
  BY <1>1, <1>2, DocEnds
<1> QED BY <1>1, <1>2, <1>3, DocEnds, StoreDoc

\* The order of ids is that of the documents.
LEMMA StoreOrder ==
  ASSUME NEW D, NEW L, NEW n, IsStore(D, L, n), NEW d \in D, NEW e \in D
  PROVE  /\ DocId(d) < DocId(e) <=> IsBefore(d, e)
         /\ DocId(d) = DocId(e) <=> d = e
         /\ DocId(d) \in Nat /\ DocId(e) \in Nat
         /\ d = e \/ IsBefore(d, e) \/ IsBefore(e, d)
BY InOrderIds DEF IsStore, InOrder

-----------------------------------------------------------------------------
(***************************************************************************)
(* Sums over a finite set of the numbers a function gives its elements,    *)
(* and from them the statistics of documents.                              *)
(***************************************************************************)
IsTotal(g, F, S) == g = [s \in SUBSET S |-> IF s = {} THEN 0 ELSE F[Picked(s)] + g[s \ {Picked(s)}]]
Total(F, S) == (CHOOSE g : IsTotal(g, F, S))[S]

LEMMA TotalExists ==
  ASSUME NEW S, IsFiniteSet(S), NEW F, \A x \in S : F[x] \in Nat
  PROVE  \E g \in [SUBSET S -> Nat] : IsTotal(g, F, S)
<1> DEFINE C == [T \in (SUBSET S) \ {{}} |-> Picked(T)]
           h == [p \in (SUBSET S) \X Nat |-> IF p[1] = {} THEN 0 ELSE F[Picked(p[1])] + p[2]]
<1>1. \A T \in (SUBSET S) \ {{}} : Picked(T) \in T
  BY DEF Picked
<1>2. \A T \in (SUBSET S) \ {{}} : C[T] \in T
  BY <1>1
<1>3. h \in [(SUBSET S) \X Nat -> Nat]
  BY <1>1
<1>4. IsFoldData(S, Nat, 0, C, h)
  <2> HIDE DEF C, h
  <2> QED BY <1>2, <1>3 DEF IsFoldData
<1>5. PICK g : IsFoldOf(g, S, Nat, 0, C, h)
  <2> HIDE DEF C, h
  <2> QED BY <1>4, FoldExists
<1>51. /\ g \in [SUBSET S -> Nat]
       /\ g[{}] = 0
       /\ \A T \in (SUBSET S) \ {{}} : g[T] = h[<<T, g[T \ {C[T]}]>>]
  <2> HIDE DEF C, h
  <2> QED BY <1>5 DEF IsFoldOf
<1>6. \A T \in (SUBSET S) \ {{}} : g[T] = F[Picked(T)] + g[T \ {Picked(T)}]
  BY <1>1, <1>51
<1>7. IsTotal(g, F, S)
  <2>1. \A T \in SUBSET S : g[T] = IF T = {} THEN 0 ELSE F[Picked(T)] + g[T \ {Picked(T)}]
    BY <1>51, <1>6
  <2> QED BY <1>51, <2>1 DEF IsTotal
<1> QED BY <1>51, <1>7

LEMMA TotalUnique ==
  ASSUME NEW S, IsFiniteSet(S), NEW T \in SUBSET S, NEW F, NEW f, NEW g, IsTotal(f, F, S), IsTotal(g, F, T)
  PROVE  \A U \in SUBSET T : f[U] = g[U]
<1> DEFINE P == {U \in SUBSET T : f[U] = g[U]}
<1>1. IsFiniteSet(T)
  BY FS_Subset
<1>2. ASSUME NEW U \in SUBSET T, \A V \in SUBSET U : V # U => V \in P
      PROVE  U \in P
  <2>1. CASE U = {}
    BY <2>1 DEF IsTotal
  <2>2. CASE U # {}
    <3>1. Picked(U) \in U
      BY <2>2 DEF Picked
    <3>2. f[U \ {Picked(U)}] = g[U \ {Picked(U)}]
      BY <1>2, <3>1
    <3>3. f[U] = F[Picked(U)] + f[U \ {Picked(U)}]
      BY <2>2 DEF IsTotal
    <3>4. g[U] = F[Picked(U)] + g[U \ {Picked(U)}]
      BY <2>2 DEF IsTotal
    <3> QED BY <3>2, <3>3, <3>4
  <2> QED BY <2>1, <2>2
<1>3. \A U \in SUBSET T : U \in P
  <2> HIDE DEF P
  <2>1. \A U \in SUBSET T : (\A V \in SUBSET U : V # U => V \in P) => U \in P
    BY <1>2
  <2> QED BY <1>1, <2>1, SubsetInduction
<1> QED BY <1>3

LEMMA TotalAt ==
  ASSUME NEW S, IsFiniteSet(S), NEW F, \A x \in S : F[x] \in Nat, NEW g \in [SUBSET S -> Nat], IsTotal(g, F, S)
  PROVE  \A T \in SUBSET S : Total(F, T) = g[T]
<1> SUFFICES ASSUME NEW T \in SUBSET S PROVE Total(F, T) = g[T]
  OBVIOUS
<1>1. IsFiniteSet(T)
  BY FS_Subset
<1>2. \E f : IsTotal(f, F, T)
  BY <1>1, TotalExists
<1>3. IsTotal((CHOOSE f : IsTotal(f, F, T)), F, T)
  BY <1>2
<1>4. g[T] = (CHOOSE f : IsTotal(f, F, T))[T]
  BY <1>3, TotalUnique
<1> QED BY <1>4 DEF Total

LEMMA TotalPicked ==
  ASSUME NEW S, IsFiniteSet(S), NEW F, \A x \in S : F[x] \in Nat
  PROVE  /\ Total(F, S) \in Nat
         /\ S = {} => Total(F, S) = 0
         /\ S # {} => Total(F, S) = F[Picked(S)] + Total(F, S \ {Picked(S)})
<1>1. PICK g \in [SUBSET S -> Nat] : IsTotal(g, F, S)
  BY TotalExists
<1>2. \A T \in SUBSET S : Total(F, T) = g[T]
  BY <1>1, TotalAt
<1>3. /\ S # {} => g[S] = F[Picked(S)] + g[S \ {Picked(S)}]
      /\ S = {} => g[S] = 0
  BY <1>1 DEF IsTotal
<1> QED BY <1>2, <1>3

LEMMA TotalRemove ==
  ASSUME NEW S, IsFiniteSet(S), NEW F, \A x \in S : F[x] \in Nat
  PROVE  \A x \in S : Total(F, S) = F[x] + Total(F, S \ {x})
<1> DEFINE P == {T \in SUBSET S : \A x \in T : Total(F, T) = F[x] + Total(F, T \ {x})}
<1>1. ASSUME NEW T \in SUBSET S, \A U \in SUBSET T : U # T => U \in P
      PROVE  T \in P
  <2> SUFFICES ASSUME NEW x \in T PROVE Total(F, T) = F[x] + Total(F, T \ {x})
    OBVIOUS
  <2> DEFINE p == Picked(T)
  <2>1. p \in T /\ IsFiniteSet(T)
    BY FS_Subset DEF Picked
  <2>2. Total(F, T) = F[p] + Total(F, T \ {p})
    BY <2>1, TotalPicked
  <2>3. CASE x # p
    <3>1. Total(F, T \ {p}) = F[x] + Total(F, (T \ {p}) \ {x})
      BY <1>1, <2>1, <2>3
    <3>2. Total(F, T \ {x}) = F[p] + Total(F, (T \ {x}) \ {p})
      BY <1>1, <2>1, <2>3
    <3>3. (T \ {p}) \ {x} = (T \ {x}) \ {p}
      OBVIOUS
    <3>4. IsFiniteSet((T \ {x}) \ {p})
      BY <2>1, FS_Subset
    <3> DEFINE rest == Total(F, (T \ {x}) \ {p})
    <3>5. rest \in Nat /\ F[x] \in Nat /\ F[p] \in Nat
      BY <2>1, <3>4, TotalPicked
    <3>6. Total(F, T \ {p}) = F[x] + rest
      BY <3>1, <3>3, Zenon
    <3>7. Total(F, T) = F[p] + (F[x] + rest)
      BY <2>2, <3>6, Zenon
    <3>8. F[p] + (F[x] + rest) = F[x] + (F[p] + rest)
      <4> HIDE DEF rest, p
      <4> QED BY <3>5
    <3> QED BY <3>2, <3>7, <3>8, Zenon
  <2> QED BY <2>2, <2>3
<1>2. \A T \in SUBSET S : T \in P
  <2> HIDE DEF P
  <2>1. \A T \in SUBSET S : (\A V \in SUBSET T : V # T => V \in P) => T \in P
    BY <1>1
  <2> QED BY <2>1, SubsetInduction
<1> QED BY <1>2

LEMMA TotalUnion ==
  ASSUME NEW A, IsFiniteSet(A), NEW B, IsFiniteSet(B), A \cap B = {}, NEW F, \A x \in A \cup B : F[x] \in Nat
  PROVE  Total(F, A \cup B) = Total(F, A) + Total(F, B)
<1> DEFINE P == {U \in SUBSET A : Total(F, U \cup B) = Total(F, U) + Total(F, B)}
<1>0. \A U \in SUBSET A : IsFiniteSet(U) /\ IsFiniteSet(U \cup B)
  BY FS_Subset, FS_Union
<1>1. ASSUME NEW U \in SUBSET A, \A V \in SUBSET U : V # U => V \in P
      PROVE  U \in P
  <2>0. Total(F, B) \in Nat
    BY TotalPicked
  <2>1. CASE U = {}
    <3>1. U \cup B = B /\ IsFiniteSet({})
      BY <2>1, FS_EmptySet
    <3>2. Total(F, {}) = 0
      BY <3>1, TotalPicked
    <3>3. Total(F, U \cup B) = Total(F, B) /\ Total(F, U) = 0
      BY <2>1, <3>1, <3>2
    <3>4. Total(F, B) = 0 + Total(F, B)
      BY <2>0
    <3> QED BY <3>3, <3>4
  <2>2. CASE U # {}
    <3>1. PICK x \in U : TRUE
      BY <2>2
    <3> DEFINE W == U \ {x}
    <3>2. W \in P /\ W \in SUBSET A
      BY <1>1, <3>1
    <3>3. (U \cup B) \ {x} = W \cup B
      BY <3>1
    <3> DEFINE V == U \cup B
    <3>40. IsFiniteSet(V) /\ (\A y \in V : F[y] \in Nat) /\ x \in V
      BY <1>0, <3>1
    <3>41. Total(F, V) = F[x] + Total(F, V \ {x})
      <4> HIDE DEF V
      <4> QED BY <3>40, TotalRemove
    <3>4. Total(F, U \cup B) = F[x] + Total(F, W \cup B)
      BY <3>3, <3>41
    <3>5. Total(F, U) = F[x] + Total(F, W)
      BY <1>0, <3>1, TotalRemove
    <3>6. Total(F, W \cup B) = Total(F, W) + Total(F, B)
      BY <3>2
    <3>7. Total(F, W) \in Nat /\ F[x] \in Nat
      BY <1>0, <3>2, TotalPicked
    <3> DEFINE a == F[x]
               w == Total(F, W)
               b == Total(F, B)
    <3>8. a + (w + b) = (a + w) + b
      <4>1. a \in Nat /\ w \in Nat /\ b \in Nat
        BY <2>0, <3>7
      <4> HIDE DEF a, w, b
      <4> QED BY <4>1
    <3>9. Total(F, U \cup B) = Total(F, U) + Total(F, B)
      BY <3>4, <3>5, <3>6, <3>8, Zenon
    <3> QED BY <3>9
  <2> QED BY <2>1, <2>2
<1>2. \A U \in SUBSET A : U \in P
  <2> HIDE DEF P
  <2>1. \A U \in SUBSET A : (\A V \in SUBSET U : V # U => V \in P) => U \in P
    BY <1>1
  <2> QED BY <2>1, SubsetInduction
<1> QED BY <1>2

(* The sums that Stats adds up *)
IsChecksums(g, S) == g = [s \in SUBSET S |-> IF s = {} THEN 0 ELSE SumChecksums(Picked(s).ops) + g[s \ {Picked(s)}]]
IsCounts(g, S) == g = [s \in SUBSET S |-> IF s = {} THEN 0 ELSE Cardinality(Picked(s).ops) + g[s \ {Picked(s)}]]

LEMMA StatsOf == \A docs : Stats(docs) = [checksum |-> (CHOOSE g : IsChecksums(g, docs))[docs],
                                          count |-> (CHOOSE g : IsCounts(g, docs))[docs], chunks |-> Cardinality(docs)]
BY DEF Stats, MapThenSumSet, MapThenFoldSet, IsChecksums, IsCounts, Picked

ChecksumIn(docs) == [d \in docs |-> SumChecksums(d.ops)]
CountIn(docs) == [d \in docs |-> Cardinality(d.ops)]

LEMMA DocNumbers ==
  ASSUME NEW docs, DocsOK(docs)
  PROVE  /\ \A d \in docs : ChecksumIn(docs)[d] = SumChecksums(d.ops) /\ ChecksumIn(docs)[d] \in Nat
         /\ \A d \in docs : CountIn(docs)[d] = Cardinality(d.ops) /\ CountIn(docs)[d] \in Nat
<1> SUFFICES ASSUME NEW d \in docs PROVE SumChecksums(d.ops) \in Nat /\ Cardinality(d.ops) \in Nat
  BY DEF ChecksumIn, CountIn
<1>1. d.ops \subseteq Op /\ IsFiniteSet(d.ops)
  BY DocFields DEF DocsOK
<1> QED BY <1>1, SumType, FS_CardinalityType

LEMMA StatsTotals ==
  ASSUME NEW docs, DocsOK(docs), NEW part \in SUBSET docs
  PROVE  /\ Stats(part).checksum = Total(ChecksumIn(docs), part)
         /\ Stats(part).count = Total(CountIn(docs), part)
         /\ Stats(part).chunks = Cardinality(part)
<1> DEFINE F == ChecksumIn(docs)
           G == CountIn(docs)
<1>1. IsFiniteSet(part) /\ (\A d \in part : F[d] \in Nat) /\ (\A d \in part : G[d] \in Nat)
  BY DocNumbers, FS_Subset DEF DocsOK
<1>2. \A s \in SUBSET part : s # {} => F[Picked(s)] = SumChecksums(Picked(s).ops) /\ G[Picked(s)] = Cardinality(Picked(s).ops)
  <2>1. \A s \in SUBSET part : s # {} => Picked(s) \in docs
    BY DEF Picked
  <2> QED BY <2>1, DocNumbers
<1> HIDE DEF F, G
<1>3. \A g : IsChecksums(g, part) <=> IsTotal(g, F, part)
  <2> SUFFICES ASSUME NEW g PROVE IsChecksums(g, part) <=> IsTotal(g, F, part)
    OBVIOUS
  <2>1. [s \in SUBSET part |-> IF s = {} THEN 0 ELSE F[Picked(s)] + g[s \ {Picked(s)}]]
          = [s \in SUBSET part |-> IF s = {} THEN 0 ELSE SumChecksums(Picked(s).ops) + g[s \ {Picked(s)}]]
    BY <1>2
  <2> QED BY <2>1 DEF IsChecksums, IsTotal
<1>4. \A g : IsCounts(g, part) <=> IsTotal(g, G, part)
  <2> SUFFICES ASSUME NEW g PROVE IsCounts(g, part) <=> IsTotal(g, G, part)
    OBVIOUS
  <2>1. [s \in SUBSET part |-> IF s = {} THEN 0 ELSE G[Picked(s)] + g[s \ {Picked(s)}]]
          = [s \in SUBSET part |-> IF s = {} THEN 0 ELSE Cardinality(Picked(s).ops) + g[s \ {Picked(s)}]]
    BY <1>2
  <2> QED BY <2>1 DEF IsCounts, IsTotal
<1>5. (CHOOSE g : IsChecksums(g, part))[part] = Total(F, part)
  <2>1. PICK g \in [SUBSET part -> Nat] : IsTotal(g, F, part)
    BY <1>1, TotalExists
  <2>2. IsChecksums(g, part)
    BY <1>3, <2>1
  <2>3. IsChecksums((CHOOSE f : IsChecksums(f, part)), part)
    BY <2>2
  <2>4. IsTotal((CHOOSE f : IsChecksums(f, part)), F, part)
    BY <1>3, <2>3
  <2>5. g[part] = (CHOOSE f : IsChecksums(f, part))[part]
    BY <1>1, <2>1, <2>4, TotalUnique
  <2>6. Total(F, part) = g[part]
    BY <1>1, <2>1, TotalAt
  <2> QED BY <2>5, <2>6
<1>6. (CHOOSE g : IsCounts(g, part))[part] = Total(G, part)
  <2>1. PICK g \in [SUBSET part -> Nat] : IsTotal(g, G, part)
    BY <1>1, TotalExists
  <2>2. IsCounts(g, part)
    BY <1>4, <2>1
  <2>3. IsCounts((CHOOSE f : IsCounts(f, part)), part)
    BY <2>2
  <2>4. IsTotal((CHOOSE f : IsCounts(f, part)), G, part)
    BY <1>4, <2>3
  <2>5. g[part] = (CHOOSE f : IsCounts(f, part))[part]
    BY <1>1, <2>1, <2>4, TotalUnique
  <2>6. Total(G, part) = g[part]
    BY <1>1, <2>1, TotalAt
  <2> QED BY <2>5, <2>6
<1>7. Stats(part) = [checksum |-> (CHOOSE g : IsChecksums(g, part))[part], count |-> (CHOOSE g : IsCounts(g, part))[part],
                     chunks |-> Cardinality(part)]
  BY StatsOf
<1> QED BY <1>5, <1>6, <1>7 DEF F, G

-----------------------------------------------------------------------------
LEMMA StatsAre ==
  ASSUME NEW docs, DocsOK(docs)
  PROVE  /\ Stats(docs) \in StatsType
         /\ Stats(docs) = [checksum |-> Stats(docs).checksum, count |-> Stats(docs).count, chunks |-> Stats(docs).chunks]
         /\ Stats(docs).checksum \in Nat /\ Stats(docs).count \in Nat /\ Stats(docs).chunks \in Nat
<1>1. (\A d \in docs : ChecksumIn(docs)[d] \in Nat) /\ (\A d \in docs : CountIn(docs)[d] \in Nat) /\ IsFiniteSet(docs)
  BY DocNumbers DEF DocsOK
<1>2. Total(ChecksumIn(docs), docs) \in Nat /\ Total(CountIn(docs), docs) \in Nat /\ Cardinality(docs) \in Nat
  BY <1>1, TotalPicked, FS_CardinalityType
<1>3. Stats(docs).checksum \in Nat /\ Stats(docs).count \in Nat /\ Stats(docs).chunks \in Nat
  BY <1>2, StatsTotals
<1>4. Stats(docs) = [checksum |-> Stats(docs).checksum, count |-> Stats(docs).count, chunks |-> Stats(docs).chunks]
  BY DEF Stats
<1> QED BY <1>3, <1>4 DEF StatsType

LEMMA StatsEqual ==
  ASSUME NEW s \in StatsType, NEW t, t = [checksum |-> t.checksum, count |-> t.count, chunks |-> t.chunks],
         s.checksum = t.checksum, s.count = t.count, s.chunks = t.chunks
  PROVE  s = t
<1>1. s = [checksum |-> s.checksum, count |-> s.count, chunks |-> s.chunks]
  BY DEF StatsType
<1> QED BY <1>1

LEMMA PlusIs ==
  ASSUME NEW s, NEW t
  PROVE  /\ Plus(s, t).checksum = s.checksum + t.checksum
         /\ Plus(s, t).count = s.count + t.count
         /\ Plus(s, t).chunks = s.chunks + t.chunks
         /\ Plus(s, t) = [checksum |-> Plus(s, t).checksum, count |-> Plus(s, t).count, chunks |-> Plus(s, t).chunks]
BY DEF Plus

LEMMA MinusIs ==
  ASSUME NEW s, NEW t
  PROVE  /\ Minus(s, t).checksum = s.checksum - t.checksum
         /\ Minus(s, t).count = s.count - t.count
         /\ Minus(s, t).chunks = s.chunks - t.chunks
         /\ Minus(s, t) = [checksum |-> Minus(s, t).checksum, count |-> Minus(s, t).count, chunks |-> Minus(s, t).chunks]
BY DEF Minus

LEMMA StatsEmpty == Stats({}) = NoStats
<1>1. DocsOK({})
  BY FS_EmptySet DEF DocsOK
<1>2. Total(ChecksumIn({}), {}) = 0 /\ Total(CountIn({}), {}) = 0 /\ Cardinality({}) = 0
  BY TotalPicked, FS_EmptySet
<1>3. Stats({}).checksum = 0 /\ Stats({}).count = 0 /\ Stats({}).chunks = 0
  <2>1. {} \in SUBSET {}
    OBVIOUS
  <2> QED BY <1>1, <1>2, <2>1, StatsTotals
<1> QED BY <1>1, <1>3, StatsAre DEF NoStats

LEMMA StatsAdd ==
  ASSUME NEW A, DocsOK(A), NEW B, DocsOK(B), A \cap B = {}
  PROVE  Stats(A \cup B) = Plus(Stats(A), Stats(B))
<1> DEFINE D == A \cup B
           F == ChecksumIn(D)
           G == CountIn(D)
<1>1. DocsOK(D) /\ IsFiniteSet(A) /\ IsFiniteSet(B)
  BY FS_Union DEF DocsOK
<1>2. (\A d \in A \cup B : F[d] \in Nat) /\ (\A d \in A \cup B : G[d] \in Nat)
  <2> HIDE DEF D, F, G
  <2> QED BY <1>1, DocNumbers DEF D, F, G
<1>3. /\ Stats(A).checksum = Total(F, A) /\ Stats(B).checksum = Total(F, B) /\ Stats(D).checksum = Total(F, D)
      /\ Stats(A).count = Total(G, A) /\ Stats(B).count = Total(G, B) /\ Stats(D).count = Total(G, D)
      /\ Stats(A).chunks = Cardinality(A) /\ Stats(B).chunks = Cardinality(B) /\ Stats(D).chunks = Cardinality(D)
  <2>1. A \in SUBSET D /\ B \in SUBSET D /\ D \in SUBSET D
    OBVIOUS
  <2> HIDE DEF D
  <2> QED BY <1>1, <2>1, StatsTotals
<1> HIDE DEF F, G
<1>4. Total(F, D) = Total(F, A) + Total(F, B) /\ Total(G, D) = Total(G, A) + Total(G, B)
  BY <1>1, <1>2, TotalUnion
<1>5. Cardinality(D) = Cardinality(A) + Cardinality(B)
  <2>1. Cardinality(A \cap B) = 0
    BY FS_EmptySet
  <2>2. Cardinality(A) \in Nat /\ Cardinality(B) \in Nat
    BY <1>1, FS_CardinalityType
  <2>3. Cardinality(D) = Cardinality(A) + Cardinality(B) - Cardinality(A \cap B)
    BY <1>1, FS_Union
  <2> QED BY <2>1, <2>2, <2>3
<1> HIDE DEF D
<1> DEFINE s == Stats(D)
           t == Plus(Stats(A), Stats(B))
<1>6. s \in StatsType
  BY <1>1, StatsAre
<1>7. s.checksum = t.checksum /\ s.count = t.count /\ s.chunks = t.chunks
  BY <1>3, <1>4, <1>5, PlusIs
<1>8. t = [checksum |-> t.checksum, count |-> t.count, chunks |-> t.chunks]
  BY PlusIs
<1> HIDE DEF s, t
<1>9. s = t
  BY <1>6, <1>7, <1>8, StatsEqual
<1> QED BY <1>9 DEF s, t, D

LEMMA StatsReplaced ==
  ASSUME NEW D, DocsOK(D), NEW P, P \subseteq D, NEW N, DocsOK(N), N \cap (D \ P) = {}
  PROVE  Stats((D \ P) \cup N) = Plus(Minus(Stats(D), Stats(P)), Stats(N))
<1> DEFINE R == D \ P
           E == R \cup N
<1>1. DocsOK(R) /\ DocsOK(P)
  <2>1. R \subseteq D
    OBVIOUS
  <2> HIDE DEF R
  <2> QED BY <2>1, DocsPart
<1>2. DocsOK(E)
  <2> HIDE DEF R
  <2> QED BY <1>1, FS_Union DEF DocsOK
<1>3. Stats(D) = Plus(Stats(R), Stats(P))
  <2>1. R \cup P = D /\ R \cap P = {}
    OBVIOUS
  <2> HIDE DEF R
  <2> QED BY <1>1, <2>1, StatsAdd
<1>4. Stats(E) = Plus(Stats(R), Stats(N))
  <2>1. R \cap N = {}
    OBVIOUS
  <2> HIDE DEF R
  <2> QED BY <1>1, <2>1, StatsAdd
<1> HIDE DEF R, E
<1> DEFINE r == Stats(R)
           p == Stats(P)
           d == Stats(D)
           n == Stats(N)
           s == Stats(E)
           t == Plus(Minus(d, p), n)
<1>5. /\ r.checksum \in Nat /\ r.count \in Nat /\ r.chunks \in Nat
      /\ p.checksum \in Nat /\ p.count \in Nat /\ p.chunks \in Nat
      /\ n.checksum \in Nat /\ n.count \in Nat /\ n.chunks \in Nat
  BY <1>1, StatsAre
<1>6. /\ d.checksum = r.checksum + p.checksum /\ d.count = r.count + p.count /\ d.chunks = r.chunks + p.chunks
      /\ s.checksum = r.checksum + n.checksum /\ s.count = r.count + n.count /\ s.chunks = r.chunks + n.chunks
  <2> HIDE DEF r, p, n, d, s
  <2>1. d = Plus(r, p) /\ s = Plus(r, n)
    BY <1>3, <1>4 DEF r, p, n, d, s
  <2> QED BY <2>1, PlusIs
<1>7. s \in StatsType
  BY <1>2, StatsAre
<1>8. /\ t.checksum = (d.checksum - p.checksum) + n.checksum
      /\ t.count = (d.count - p.count) + n.count
      /\ t.chunks = (d.chunks - p.chunks) + n.chunks
      /\ t = [checksum |-> t.checksum, count |-> t.count, chunks |-> t.chunks]
  <2> HIDE DEF r, p, n, d, s
  <2> QED BY PlusIs, MinusIs
<1> HIDE DEF r, p, n, d, s, t
<1>9. s.checksum = t.checksum /\ s.count = t.count /\ s.chunks = t.chunks
  BY <1>5, <1>6, <1>8
<1>10. s = t
  BY <1>7, <1>8, <1>9, StatsEqual
<1> QED BY <1>10 DEF s, t, d, p, n, E, R

LEMMA StatsOne ==
  ASSUME NEW d \in Doc
  PROVE  Stats({d}).checksum = SumChecksums(d.ops) /\ Stats({d}).count = Cardinality(d.ops) /\ Stats({d}).chunks = 1
<1> DEFINE S == {d}
<1>1. DocsOK(S) /\ Cardinality(S) = 1 /\ IsFiniteSet(S)
  BY OneDoc, FS_Singleton
<1>2. S \ {d} = {} /\ d \in S
  OBVIOUS
<1> HIDE DEF S
<1>3. /\ ChecksumIn(S)[d] = SumChecksums(d.ops) /\ ChecksumIn(S)[d] \in Nat
      /\ CountIn(S)[d] = Cardinality(d.ops) /\ CountIn(S)[d] \in Nat
      /\ (\A e \in S : ChecksumIn(S)[e] \in Nat) /\ (\A e \in S : CountIn(S)[e] \in Nat)
  BY <1>1, <1>2, DocNumbers
<1>4. /\ Total(ChecksumIn(S), S) = ChecksumIn(S)[d] + Total(ChecksumIn(S), {})
      /\ Total(CountIn(S), S) = CountIn(S)[d] + Total(CountIn(S), {})
  BY <1>1, <1>2, <1>3, TotalRemove
<1>5. Total(ChecksumIn(S), {}) = 0 /\ Total(CountIn(S), {}) = 0
  BY TotalPicked, FS_EmptySet
<1>6. S \in SUBSET S
  OBVIOUS
<1>7. Stats(S).checksum = Total(ChecksumIn(S), S) /\ Stats(S).count = Total(CountIn(S), S) /\ Stats(S).chunks = 1
  BY <1>1, <1>6, StatsTotals
<1>8. Stats(S).checksum = SumChecksums(d.ops) /\ Stats(S).count = Cardinality(d.ops) /\ Stats(S).chunks = 1
  BY <1>3, <1>4, <1>5, <1>7
<1> QED BY <1>8 DEF S

\* Documents that do not overlap: the sums of their operations
LEMMA StatsOps ==
  ASSUME NEW docs, DocsOK(docs), InOrder(docs)
  PROVE  Stats(docs).checksum = SumChecksums(OpsOf(docs)) /\ Stats(docs).count = Cardinality(OpsOf(docs))
<1> DEFINE Fine(U) == Stats(U).checksum = SumChecksums(OpsOf(U)) /\ Stats(U).count = Cardinality(OpsOf(U))
           P == {U \in SUBSET docs : Fine(U)}
<1>1. ASSUME NEW U \in SUBSET docs, \A V \in SUBSET U : V # U => V \in P
      PROVE  U \in P
  <2>1. CASE U = {}
    <3>1. OpsOf({}) = {}
      BY DEF OpsOf
    <3>2. Stats({}).checksum = 0 /\ Stats({}).count = 0
      BY StatsEmpty DEF NoStats
    <3>3. Fine({})
      BY <3>1, <3>2, SumEmpty, FS_EmptySet
    <3> QED BY <2>1, <3>3
  <2>2. CASE U # {}
    <3>1. PICK d \in U : TRUE
      BY <2>2
    <3> DEFINE W == U \ {d}
    <3>2. W \in P
      BY <1>1, <3>1
    <3>3. d \in Doc /\ DocsOK(W) /\ DocsOK({d}) /\ W \cap {d} = {} /\ W \cup {d} = U
      <4>1. d \in Doc
        BY DEF DocsOK
      <4>2. W \subseteq docs
        OBVIOUS
      <4>3. DocsOK(W)
        <5> HIDE DEF W
        <5> QED BY <4>2, DocsPart
      <4> QED BY <3>1, <4>1, <4>3, OneDoc
    <3>4. Stats(U) = Plus(Stats(W), Stats({d}))
      <4> HIDE DEF W
      <4> QED BY <3>3, StatsAdd
    <3>5. Stats(U).checksum = Stats(W).checksum + SumChecksums(d.ops) /\ Stats(U).count = Stats(W).count + Cardinality(d.ops)
      <4> HIDE DEF W
      <4>1. Stats({d}).checksum = SumChecksums(d.ops) /\ Stats({d}).count = Cardinality(d.ops)
        BY <3>3, StatsOne
      <4> QED BY <3>4, <4>1, PlusIs
    <3>6. OpsOf(U) = OpsOf(W) \cup d.ops
      BY <3>1 DEF OpsOf
    <3>7. OpsOf(W) \cap d.ops = {}
      <4> SUFFICES ASSUME NEW o \in d.ops, NEW e \in W, o \in e.ops PROVE FALSE
        BY DEF OpsOf
      <4>1. IsBefore(d, e) \/ IsBefore(e, d)
        BY DEF InOrder
      <4>2. o.op_id \in Nat
        BY <3>3, DocFields, OpFields
      <4> QED BY <4>1, <4>2 DEF IsBefore
    <3>8. OpsOf(W) \subseteq Op /\ IsFiniteSet(OpsOf(W)) /\ d.ops \subseteq Op /\ IsFiniteSet(d.ops)
      <4> HIDE DEF W
      <4> QED BY <3>3, OpsOfOK, DocFields
    <3>9. SumChecksums(OpsOf(U)) = SumChecksums(OpsOf(W)) + SumChecksums(d.ops)
      <4> HIDE DEF W
      <4> QED BY <3>6, <3>7, <3>8, SumUnion
    <3>10. Cardinality(OpsOf(U)) = Cardinality(OpsOf(W)) + Cardinality(d.ops)
      <4> HIDE DEF W
      <4>1. Cardinality(OpsOf(U)) = Cardinality(OpsOf(W)) + Cardinality(d.ops) - Cardinality(OpsOf(W) \cap d.ops)
        BY <3>6, <3>8, FS_Union
      <4>2. Cardinality(OpsOf(W) \cap d.ops) = 0 /\ Cardinality(OpsOf(W)) \in Nat /\ Cardinality(d.ops) \in Nat
        BY <3>7, <3>8, FS_EmptySet, FS_CardinalityType
      <4> QED BY <4>1, <4>2
    <3> QED BY <3>2, <3>5, <3>9, <3>10
  <2> QED BY <2>1, <2>2
<1>2. \A U \in SUBSET docs : U \in P
  <2> HIDE DEF P
  <2>1. IsFiniteSet(docs)
    BY DEF DocsOK
  <2>2. \A U \in SUBSET docs : (\A V \in SUBSET U : V # U => V \in P) => U \in P
    BY <1>1
  <2> QED BY <2>1, <2>2, SubsetInduction
<1>3. docs \in SUBSET docs
  OBVIOUS
<1> QED BY <1>2, <1>3

-----------------------------------------------------------------------------
(***************************************************************************)
(* Checksums of what is stored, against those of the log.                  *)
(***************************************************************************)
\* The stored operations, as documents have them and as readers see them
LEMMA ViewOp ==
  ASSUME NEW D, NEW L, NEW n \in Nat, IsStore(D, L, n), NEW v \in View(D)
  PROVE  \E o \in OpsOf(D) : o.op_id = v.op_id /\ o.checksum = v.checksum /\ o.op = v.op
<1>1. PICK d \in D : \E o \in d.ops : v = Given(o, d.target_op)
  BY ViewFrom
<1>2. PICK o \in d.ops : v = Given(o, d.target_op)
  BY <1>1
<1>3. o.op_id = v.op_id /\ o.checksum = v.checksum /\ o.op = v.op
  BY <1>2, ViewFields
<1>4. o \in OpsOf(D)
  BY OpsOfHas
<1> QED BY <1>3, <1>4

LEMMA StoredOp ==
  ASSUME NEW D, NEW L, NEW n \in Nat, IsStore(D, L, n), NEW o \in OpsOf(D)
  PROVE  \E v \in View(D) : o.op_id = v.op_id /\ o.checksum = v.checksum /\ o.op = v.op
<1>1. PICK d \in D : o \in d.ops
  BY OpsOfHas
<1>2. Given(o, d.target_op) \in View(D)
  BY <1>1, ViewHas
<1>3. Given(o, d.target_op).op_id = o.op_id /\ Given(o, d.target_op).checksum = o.checksum /\ Given(o, d.target_op).op = o.op
  BY <1>1, ViewFields
<1> QED BY <1>2, <1>3

LEMMA StoredOps ==
  ASSUME NEW D, NEW L, NEW n \in Nat, IsStore(D, L, n)
  PROVE  /\ IsOps(OpsOf(D)) /\ HasOwnIds(OpsOf(D))
         /\ \A o \in OpsOf(D) : o \in Op /\ o.op_id \in Nat /\ o.op_id > 0 /\ o.op_id <= n
<1>1. \A o \in OpsOf(D) : \E d \in D : o \in d.ops
  BY OpsOfHas
<1>2. \A o \in OpsOf(D) : o \in Op /\ o.op_id \in Nat /\ o.op_id > 0 /\ o.op_id <= n
  BY <1>1, StoreDoc
<1>3. \A o, p \in OpsOf(D) : o.op_id = p.op_id => o = p
  BY <1>1, SameDoc
<1>4. OpsOf(D) \subseteq Op
  BY <1>2
<1>5. IsOps(OpsOf(D))
  BY <1>2, <1>3, <1>4, BoundedOps
<1> QED BY <1>2, <1>3, <1>5 DEF HasOwnIds

LEMMA OpsPart ==
  ASSUME NEW T, IsOps(T), NEW S, S \subseteq T
  PROVE  IsOps(S) /\ S \subseteq Op /\ IsFiniteSet(S)
BY FS_Subset DEF IsOps

LEMMA SeenSum ==
  ASSUME NEW D, NEW L, NEW n \in Nat, IsStore(D, L, n), NEW S, S \subseteq OpsOf(D), NEW T, T \subseteq View(D),
         \A o \in S : HasId(T, o.op_id), \A v \in T : HasId(S, v.op_id)
  PROVE  SumChecksums(S) = SumChecksums(T)
<1>1. IsOps(S) /\ IsOps(T)
  BY StoredOps, ViewIsOps, OpsPart
<1>2. ASSUME NEW o \in S PROVE \E v \in T : v.op_id = o.op_id /\ v.checksum = o.checksum
  <2>1. PICK v \in T : v.op_id = o.op_id
    BY DEF HasId
  <2>2. PICK u \in View(D) : o.op_id = u.op_id /\ o.checksum = u.checksum
    BY StoredOp
  <2>3. u = v
    BY <2>1, <2>2, ViewIsOps DEF IsOps
  <2> QED BY <2>1, <2>2, <2>3
<1>3. \A v \in T : \E o \in S : v.op_id = o.op_id
  BY DEF HasId
<1> QED BY <1>1, <1>2, <1>3, SumSame

\* A CLEAR is the first operation.
LEMMA ClearIsFirst ==
  ASSUME NEW D, NEW L, NEW n \in Nat, IsStore(D, L, n), NEW o \in OpsOf(D), o.op = "CLEAR", NEW p \in OpsOf(D)
  PROVE  o.op_id <= p.op_id
<1>1. PICK v \in View(D) : o.op_id = v.op_id /\ o.op = v.op
  BY StoredOp
<1>2. PICK u \in View(D) : p.op_id = u.op_id
  BY StoredOp
<1>3. v.op_id <= u.op_id
  BY <1>1, <1>2 DEF IsStore, LogOK, ClearsStart
<1> QED BY <1>1, <1>2, <1>3

\* After every CLEAR
LEMMA TailSum ==
  ASSUME NEW D, NEW L, NEW n, IsLog(L, n), IsStore(D, L, n), NEW a \in Nat, NEW k \in Nat,
         \A o \in OpsOf(D) : o.op = "CLEAR" => o.op_id <= a,
         NEW S, S = {o \in OpsOf(D) : a < o.op_id /\ o.op_id <= k}
  PROVE  SumChecksums(S) = SumChecksums(Between(L, a, k))
<1> DEFINE T == Between(View(D), a, k)
<1>1. IsLogged(View(D), L) /\ LogOK(View(D), L) /\ n \in Nat
  BY StoreLogged
<1>2. \A v \in View(D) : v.op = "CLEAR" => v.op_id <= a
  BY <1>1, ViewOp
<1>3. SumChecksums(T) = SumChecksums(Between(L, a, k))
  BY <1>1, <1>2, SumTail
<1>4. S \subseteq OpsOf(D) /\ T \subseteq View(D)
  BY DEF Between
<1>5. \A o \in S : HasId(T, o.op_id)
  BY <1>1, StoredOp DEF Between, HasId
<1>6. \A v \in T : HasId(S, v.op_id)
  BY <1>1, ViewOp DEF Between, HasId
<1> HIDE DEF T
<1>7. SumChecksums(S) = SumChecksums(T)
  BY <1>1, <1>4, <1>5, <1>6, SeenSum
<1> QED BY <1>3, <1>7

\* From a CLEAR on
LEMMA ClearSum ==
  ASSUME NEW D, NEW L, NEW n, IsLog(L, n), IsStore(D, L, n), NEW k \in Nat,
         NEW c \in OpsOf(D), c.op = "CLEAR", c.op_id <= k,
         NEW S, S = {o \in OpsOf(D) : o.op_id <= k}
  PROVE  SumChecksums(S) = SumChecksums(Between(L, 0, k))
<1>1. IsLogged(View(D), L) /\ LogOK(View(D), L) /\ n \in Nat
  BY StoreLogged
<1>2. PICK u \in View(D) : c.op_id = u.op_id /\ c.op = u.op
  BY <1>1, StoredOp
<1> DEFINE T == {v \in View(D) : u.op_id <= v.op_id /\ v.op_id <= k}
<1>3. SumChecksums(T) = SumChecksums(Between(L, 0, k))
  BY <1>1, <1>2, SumFromClear
<1>4. S \subseteq OpsOf(D) /\ T \subseteq View(D)
  OBVIOUS
<1>5. ASSUME NEW o \in S PROVE HasId(T, o.op_id)
  <2>1. PICK v \in View(D) : o.op_id = v.op_id
    BY <1>1, StoredOp
  <2>2. u.op_id <= v.op_id
    BY <1>1, <1>2, <2>1, ClearIsFirst
  <2> QED BY <2>1, <2>2 DEF HasId
<1>6. \A v \in T : HasId(S, v.op_id)
  BY <1>1, ViewOp DEF HasId
<1> HIDE DEF T
<1>7. SumChecksums(S) = SumChecksums(T)
  BY <1>1, <1>4, <1>5, <1>6, SeenSum
<1> QED BY <1>3, <1>7

(***************************************************************************)
(* What lies between two positions that no document straddles: the         *)
(* checksum of what was written between them, or of everything up to the   *)
(* later one when it begins with a CLEAR.                                  *)
(***************************************************************************)
LEMMA SentOps ==
  ASSUME NEW D, NEW L, NEW n, IsLog(L, n), IsStore(D, L, n), NEW a \in Nat, NEW k \in Nat,
         \A d \in Sent(D, a, k) : a < MinOp(d) /\ DocId(d) <= k
  PROVE  OpsOf(Sent(D, a, k)) = {o \in OpsOf(D) : a < o.op_id /\ o.op_id <= k}
<1>0. n \in Nat
  BY DEF IsLog
<1>1. ASSUME NEW d \in D, NEW o \in d.ops
      PROVE  MinOp(d) <= o.op_id /\ o.op_id <= DocId(d) /\ o.op_id \in Nat /\ MinOp(d) \in Nat /\ DocId(d) \in Nat
  BY StoreDoc, DocEnds
<1>2. ASSUME NEW d \in Sent(D, a, k), NEW o \in d.ops PROVE d \in D /\ o \in OpsOf(D) /\ a < o.op_id /\ o.op_id <= k
  <2>1. d \in D
    BY DEF Sent
  <2>2. a < MinOp(d) /\ DocId(d) <= k
    OBVIOUS
  <2>3. o \in OpsOf(D)
    BY <2>1, OpsOfHas
  <2> QED BY <1>1, <2>1, <2>2, <2>3
<1>3. ASSUME NEW o \in OpsOf(D), a < o.op_id, o.op_id <= k PROVE o \in OpsOf(Sent(D, a, k))
  <2>1. PICK d \in D : o \in d.ops
    BY OpsOfHas
  <2>2. d \in Sent(D, a, k)
    BY <1>1, <1>3, <2>1 DEF Sent
  <2> QED BY <2>1, <2>2, OpsOfHas
<1>4. \A o \in OpsOf(Sent(D, a, k)) : \E d \in Sent(D, a, k) : o \in d.ops
  BY OpsOfHas
<1> QED BY <1>2, <1>3, <1>4

LEMMA SentSum ==
  ASSUME NEW D, NEW L, NEW n, IsLog(L, n), IsStore(D, L, n), NEW a \in Nat, NEW k \in Nat, a <= k,
         \A d \in D : HasClear(d) => MinOp(d) <= k,
         \A d \in Sent(D, a, k) : a < MinOp(d) /\ DocId(d) <= k
  PROVE  SumChecksums(OpsOf(Sent(D, a, k))) =
           IF \E d \in Sent(D, a, k) : HasClear(d) THEN SumChecksums(Between(L, 0, k)) ELSE SumChecksums(Between(L, a, k))
<1>0. n \in Nat
  BY DEF IsLog
<1>1. OpsOf(Sent(D, a, k)) = {o \in OpsOf(D) : a < o.op_id /\ o.op_id <= k}
  BY SentOps
<1>2. \A o \in OpsOf(D) : o.op_id \in Nat
  BY <1>0, StoredOps
<1>3. CASE \E d \in Sent(D, a, k) : HasClear(d)
  <2>1. PICK d \in Sent(D, a, k) : HasClear(d)
    BY <1>3
  <2>2. PICK c \in d.ops : c.op = "CLEAR"
    BY <2>1 DEF HasClear
  <2>3. c \in OpsOf(Sent(D, a, k))
    BY <2>2, OpsOfHas
  <2>4. c \in OpsOf(D) /\ a < c.op_id /\ c.op_id <= k
    BY <1>1, <2>3
  <2>5. \A o \in OpsOf(D) : c.op_id <= o.op_id
    BY <1>0, <2>2, <2>4, ClearIsFirst
  <2>6. OpsOf(Sent(D, a, k)) = {o \in OpsOf(D) : o.op_id <= k}
    <3>1. \A o \in OpsOf(D) : a < o.op_id
      BY <1>2, <2>4, <2>5
    <3> QED BY <1>1, <3>1
  <2>7. SumChecksums(OpsOf(Sent(D, a, k))) = SumChecksums(Between(L, 0, k))
    BY <2>2, <2>4, <2>6, ClearSum
  <2> QED BY <1>3, <2>7
<1>4. CASE ~ \E d \in Sent(D, a, k) : HasClear(d)
  <2>1. ASSUME NEW c \in OpsOf(D), c.op = "CLEAR" PROVE c.op_id <= a
    <3>1. PICK d \in D : c \in d.ops
      BY OpsOfHas
    <3>2. HasClear(d)
      BY <2>1, <3>1 DEF HasClear
    <3>3. MinOp(d) <= k /\ d \notin Sent(D, a, k)
      BY <1>4, <3>2
    <3>4. ~(DocId(d) > a)
      BY <3>3 DEF Sent
    <3>5. d \in Doc /\ c.op_id <= DocId(d) /\ DocId(d) \in Nat
      BY <3>1, StoreDoc, DocEnds
    <3> QED BY <1>2, <3>4, <3>5
  <2>2. SumChecksums(OpsOf(Sent(D, a, k))) = SumChecksums(Between(L, a, k))
    BY <1>1, <2>1, TailSum
  <2> QED BY <1>4, <2>2
<1> QED BY <1>3, <1>4

-----------------------------------------------------------------------------
(* Documents up to one of them, and after it *)
DocsUpTo(docs, k) == {d \in docs : DocId(d) <= k}
DocsAfter(docs, k) == {d \in docs : DocId(d) > k}
IsWhole(docs, k) == \E d \in docs : DocId(d) = k

\* The ids of what is stored
IdsUpTo(docs, k) == {id \in 1..k : HasId(OpsOf(docs), id)}

LEMMA OpInDoc ==
  ASSUME NEW D, NEW L, NEW n, IsStore(D, L, n), NEW d \in D, NEW o \in d.ops
  PROVE  MinOp(d) <= o.op_id /\ o.op_id <= DocId(d) /\ o.op_id \in Nat /\ MinOp(d) \in Nat /\ DocId(d) \in Nat
BY StoreDoc, DocEnds

\* Nothing straddles the end of a document.
LEMMA WholeDoc ==
  ASSUME NEW D, NEW L, NEW n, IsStore(D, L, n), NEW k \in Nat, IsWhole(D, k), NEW d \in D
  PROVE  DocId(d) <= k \/ \A o \in d.ops : o.op_id > k
<1>1. PICK e \in D : DocId(e) = k
  BY DEF IsWhole
<1>2. PICK p \in e.ops : p.op_id = k
  BY <1>1, StoreDoc, DocEnds DEF HasId
<1>3. CASE d = e \/ IsBefore(d, e)
  <2>1. DocId(d) \in Nat /\ (DocId(d) < DocId(e) <=> IsBefore(d, e))
    BY StoreOrder
  <2> QED BY <1>1, <1>3, <2>1
<1>4. CASE IsBefore(e, d)
  BY <1>2, <1>4 DEF IsBefore
<1> QED BY <1>3, <1>4, StoreOrder

LEMMA WholeOps ==
  ASSUME NEW D, NEW L, NEW n, IsStore(D, L, n), NEW k \in Nat, IsWhole(D, k)
  PROVE  OpsOf(DocsUpTo(D, k)) = {o \in OpsOf(D) : o.op_id <= k}
<1>1. ASSUME NEW d \in D, NEW o \in d.ops, o.op_id <= k PROVE d \in DocsUpTo(D, k)
  <2>1. o.op_id \in Nat
    BY OpInDoc
  <2>2. DocId(d) <= k
    BY <1>1, <2>1, WholeDoc
  <2> QED BY <2>2 DEF DocsUpTo
<1>2. ASSUME NEW d \in DocsUpTo(D, k), NEW o \in d.ops PROVE d \in D /\ o.op_id <= k
  <2>1. d \in D /\ DocId(d) <= k
    BY DEF DocsUpTo
  <2> QED BY <2>1, OpInDoc
<1>3. \A o \in OpsOf(DocsUpTo(D, k)) : o \in OpsOf(D) /\ o.op_id <= k
  BY <1>2, OpsOfHas
<1>4. \A o \in OpsOf(D) : o.op_id <= k => o \in OpsOf(DocsUpTo(D, k))
  BY <1>1, OpsOfHas
<1> QED BY <1>3, <1>4

LEMMA PartStats ==
  ASSUME NEW D, NEW L, NEW n, IsStore(D, L, n), NEW part, part \subseteq D
  PROVE  /\ DocsOK(part) /\ InOrder(part)
         /\ Stats(part).checksum = SumChecksums(OpsOf(part)) /\ Stats(part).count = Cardinality(OpsOf(part))
         /\ Stats(part).chunks = Cardinality(part)
         /\ Stats(part).checksum \in Nat /\ Stats(part).count \in Nat /\ Stats(part).chunks \in Nat
<1>1. DocsOK(part)
  BY DocsPart DEF IsStore
<1>2. InOrder(part)
  BY DEF InOrder, IsStore
<1>3. Stats(part).chunks = Cardinality(part)
  BY DEF Stats
<1> QED BY <1>1, <1>2, <1>3, StatsOps, StatsAre

\* The statistics of a prefix have the checksum of what was written.
LEMMA WholeSum ==
  ASSUME NEW D, NEW L, NEW n, IsLog(L, n), IsStore(D, L, n), NEW k \in Nat, IsWhole(D, k)
  PROVE  SumChecksums(OpsOf(DocsUpTo(D, k))) = SumChecksums(Between(L, 0, k))
<1>0. n \in Nat
  BY DEF IsLog
<1>1. OpsOf(DocsUpTo(D, k)) = {o \in OpsOf(D) : o.op_id <= k}
  BY WholeOps
<1>2. PICK e \in D : DocId(e) = k
  BY DEF IsWhole
<1>3. PICK p \in e.ops : p.op_id = k
  BY <1>2, StoreDoc, DocEnds DEF HasId
<1>4. p \in OpsOf(D)
  BY <1>3, OpsOfHas
<1>5. CASE \E c \in OpsOf(D) : c.op = "CLEAR"
  <2>1. PICK c \in OpsOf(D) : c.op = "CLEAR"
    BY <1>5
  <2>2. c.op_id <= k
    BY <1>0, <1>3, <1>4, <2>1, ClearIsFirst
  <2> QED BY <1>1, <2>1, <2>2, ClearSum
<1>6. CASE \A c \in OpsOf(D) : c.op # "CLEAR"
  <2>1. \A o \in OpsOf(D) : o.op_id > 0 /\ o.op_id \in Nat
    BY <1>0, StoredOps
  <2>2. OpsOf(DocsUpTo(D, k)) = {o \in OpsOf(D) : 0 < o.op_id /\ o.op_id <= k}
    BY <1>1, <2>1
  <2> QED BY <1>6, <2>2, TailSum
<1> QED BY <1>5, <1>6

-----------------------------------------------------------------------------
(* How many ids *)
LEMMA IdsAreCounted ==
  ASSUME NEW D, NEW k \in Nat, NEW E, NEW m \in Nat, \A id \in IdsUpTo(E, m) : id \in IdsUpTo(D, k)
  PROVE  /\ IsFiniteSet(IdsUpTo(D, k)) /\ Cardinality(IdsUpTo(D, k)) \in Nat
         /\ Cardinality(IdsUpTo(E, m)) <= Cardinality(IdsUpTo(D, k)) /\ Cardinality(IdsUpTo(E, m)) \in Nat
<1>1. IsFiniteSet(1..k)
  BY FS_Interval
<1>2. IsFiniteSet(IdsUpTo(D, k))
  BY <1>1, FS_Subset DEF IdsUpTo
<1>3. IdsUpTo(E, m) \subseteq IdsUpTo(D, k)
  OBVIOUS
<1> QED BY <1>2, <1>3, FS_Subset, FS_CardinalityType

LEMMA IdsKept ==
  ASSUME NEW D, NEW E, NEW k \in Nat, \A o \in OpsOf(E) : HasId(OpsOf(D), o.op_id)
  PROVE  Cardinality(IdsUpTo(E, k)) <= Cardinality(IdsUpTo(D, k)) /\ Cardinality(IdsUpTo(D, k)) \in Nat
                                                                  /\ Cardinality(IdsUpTo(E, k)) \in Nat
<1>1. \A id \in IdsUpTo(E, k) : id \in IdsUpTo(D, k)
  BY DEF IdsUpTo, HasId
<1> QED BY <1>1, IdsAreCounted

\* Not more ids than operations
LEMMA IdsOfOps ==
  ASSUME NEW S, IsOps(S), NEW ids, \A id \in ids : HasId(S, id)
  PROVE  IsFiniteSet(ids) /\ Cardinality(ids) <= Cardinality(S) /\ Cardinality(ids) \in Nat /\ Cardinality(S) \in Nat
<1> DEFINE f == [o \in S |-> o.op_id]
           J == {f[o] : o \in S}
<1>1. IsFiniteSet(S)
  BY DEF IsOps
<1>2. f \in Surjection(S, J)
  BY DEF Surjection
<1>3. IsFiniteSet(J) /\ Cardinality(J) <= Cardinality(S)
  <2> HIDE DEF f, J
  <2> QED BY <1>1, <1>2, FS_Surjection
<1>4. ids \subseteq J
  BY DEF HasId
<1>5. IsFiniteSet(ids) /\ Cardinality(ids) <= Cardinality(J)
  <2> HIDE DEF J
  <2> QED BY <1>3, <1>4, FS_Subset
<1>6. Cardinality(ids) \in Nat /\ Cardinality(S) \in Nat /\ Cardinality(J) \in Nat
  <2> HIDE DEF J
  <2> QED BY <1>1, <1>3, <1>5, FS_CardinalityType
<1> QED BY <1>3, <1>5, <1>6

-----------------------------------------------------------------------------
(***************************************************************************)
(* Statistics of everything up to k: the checksum is that of what was      *)
(* written, and at least as many operations are counted as are stored.     *)
(***************************************************************************)
IsPrefix(s, k, docs, L) ==
  /\ s.checksum = SumChecksums(Between(L, 0, k))
  /\ s.count \in Nat /\ s.chunks \in Nat /\ s.chunks > 0
  /\ Cardinality(IdsUpTo(docs, k)) <= s.count

LowOps(docs, k) == {o \in OpsOf(docs) : o.op_id <= k}
IsOverlap(s, low) ==
  s.checksum = SumChecksums(low) /\ s.count = Cardinality(low) /\ s.chunks = IF low = {} THEN 0 ELSE 1

LEMMA PrefixStats ==
  ASSUME NEW D, NEW L, NEW n, IsLog(L, n), IsStore(D, L, n), NEW k \in Nat, IsWhole(D, k)
  PROVE  IsPrefix(Stats(DocsUpTo(D, k)), k, D, L)
<1> DEFINE T == DocsUpTo(D, k)
<1>0. n \in Nat
  BY DEF IsLog
<1>1. T \subseteq D
  BY DEF DocsUpTo
<1>2. OpsOf(T) = {o \in OpsOf(D) : o.op_id <= k} /\ SumChecksums(OpsOf(T)) = SumChecksums(Between(L, 0, k))
  BY WholeOps, WholeSum
<1>3. T # {}
  BY DEF IsWhole, DocsUpTo
<1> HIDE DEF T
<1>4. /\ Stats(T).checksum = SumChecksums(OpsOf(T)) /\ Stats(T).count = Cardinality(OpsOf(T))
      /\ Stats(T).chunks = Cardinality(T) /\ Stats(T).count \in Nat /\ Stats(T).chunks \in Nat /\ IsFiniteSet(T)
  BY <1>1, PartStats DEF DocsOK
<1>5. Cardinality(T) > 0
  BY <1>3, <1>4, FS_EmptySet
<1>6. IsOps(OpsOf(T))
  <2>1. OpsOf(T) \subseteq OpsOf(D)
    BY <1>2
  <2> QED BY <1>0, <2>1, StoredOps, OpsPart
<1>7. \A id \in IdsUpTo(D, k) : HasId(OpsOf(T), id)
  BY <1>2 DEF IdsUpTo, HasId
<1>8. Cardinality(IdsUpTo(D, k)) <= Cardinality(OpsOf(T))
  BY <1>6, <1>7, IdsOfOps
<1>9. IsPrefix(Stats(T), k, D, L)
  BY <1>2, <1>4, <1>5, <1>8 DEF IsPrefix
<1> QED BY <1>9 DEF T

(***************************************************************************)
(* A cached prefix up to p, and the documents from p on up to k: what both *)
(* count, the operations up to p in the latter, is taken off.              *)
(***************************************************************************)
LEMMA CombinedSums ==
  ASSUME NEW D, NEW L, NEW n, IsLog(L, n), IsStore(D, L, n), NEW p \in Nat, NEW k \in Nat, IsWhole(D, k),
         NEW T, T = {d \in D : p <= DocId(d) /\ DocId(d) <= k}, NEW low, low = LowOps(T, p), low # {}
  PROVE  /\ SumChecksums(Between(L, 0, p)) + (SumChecksums(OpsOf(T)) - SumChecksums(low)) = SumChecksums(Between(L, 0, k))
         /\ Cardinality(IdsUpTo(D, k)) <= Cardinality(IdsUpTo(D, p)) + (Cardinality(OpsOf(T)) - Cardinality(low))
         /\ Cardinality(low) \in Nat /\ Cardinality(OpsOf(T)) - Cardinality(low) \in Nat
         /\ SumChecksums(low) \in Nat /\ SumChecksums(OpsOf(T)) \in Nat /\ p <= k
         /\ Cardinality(IdsUpTo(D, k)) \in Nat /\ Cardinality(IdsUpTo(D, p)) \in Nat
<1> DEFINE high == {o \in OpsOf(D) : p < o.op_id /\ o.op_id <= k}
<1>0. n \in Nat /\ IsOps(L)
  BY DEF IsLog
<1>1. /\ IsOps(OpsOf(D))
      /\ \A o \in OpsOf(D) : o \in Op /\ o.op_id \in Nat /\ o.op_id > 0 /\ o.op_id <= n
  BY <1>0, StoredOps
<1>2. \A d \in T : d \in D /\ DocId(d) \in Nat /\ p <= DocId(d) /\ DocId(d) <= k
  BY <1>0, StoreIds
<1>3. ASSUME NEW o \in OpsOf(T) PROVE o \in OpsOf(D) /\ o.op_id <= k
  <2>1. PICK d \in T : o \in d.ops
    BY OpsOfHas
  <2>2. d \in D /\ DocId(d) <= k
    BY <1>2
  <2>3. o.op_id <= DocId(d) /\ o.op_id \in Nat /\ DocId(d) \in Nat
    BY <2>1, <2>2, OpInDoc
  <2> QED BY <2>1, <2>2, <2>3, OpsOfHas
<1>4. ASSUME NEW o \in high PROVE o \in OpsOf(T)
  <2>1. PICK d \in D : o \in d.ops
    BY OpsOfHas
  <2>2. o.op_id <= DocId(d) /\ o.op_id \in Nat /\ DocId(d) \in Nat
    BY <2>1, OpInDoc
  <2>3. DocId(d) <= k
    BY <2>1, <2>2, WholeDoc
  <2>4. d \in T
    BY <2>2, <2>3
  <2> QED BY <2>1, <2>4, OpsOfHas
<1>5. OpsOf(T) = low \cup high /\ low \cap high = {} /\ low \subseteq OpsOf(D) /\ high \subseteq OpsOf(D)
  <2>1. low = {o \in OpsOf(T) : o.op_id <= p}
    BY DEF LowOps
  <2> QED BY <1>1, <1>3, <1>4, <2>1
<1>6. p <= k
  <2>1. PICK o \in low : TRUE
    OBVIOUS
  <2>2. o \in OpsOf(T)
    BY <1>5
  <2>3. PICK d \in T : o \in d.ops
    BY <2>2, OpsOfHas
  <2> QED BY <1>2, <2>3
<1>7. \A c \in OpsOf(D) : c.op = "CLEAR" => c.op_id <= p
  <2>1. PICK o \in low : TRUE
    OBVIOUS
  <2>2. o.op_id <= p /\ o \in OpsOf(D)
    BY <1>5, <2>1 DEF LowOps
  <2>3. \A c \in OpsOf(D) : c.op = "CLEAR" => c.op_id <= o.op_id
    BY <1>0, <2>2, ClearIsFirst
  <2> QED BY <1>1, <2>2, <2>3
<1>8. SumChecksums(high) = SumChecksums(Between(L, p, k))
  BY <1>7, TailSum
<1>9. SumChecksums(Between(L, 0, k)) = SumChecksums(Between(L, 0, p)) + SumChecksums(Between(L, p, k))
  BY <1>0, <1>6, SumSplit
<1>10. IsOps(low) /\ IsOps(high) /\ low \subseteq Op /\ high \subseteq Op /\ IsFiniteSet(low) /\ IsFiniteSet(high)
  <2> HIDE DEF high
  <2> QED BY <1>1, <1>5, OpsPart
<1> DEFINE idsHigh == {id \in 1..k : HasId(high, id)}
<1>11. \A id \in IdsUpTo(D, k) : id \in IdsUpTo(D, p) \/ id \in idsHigh
  BY DEF IdsUpTo, HasId
<1>12. \A id \in idsHigh : HasId(high, id)
  OBVIOUS
<1> HIDE DEF high, idsHigh
<1>13. SumChecksums(OpsOf(T)) = SumChecksums(low) + SumChecksums(high) /\ SumChecksums(low) \in Nat /\ SumChecksums(high) \in Nat
  BY <1>5, <1>10, SumUnion, SumType
<1>14. Cardinality(OpsOf(T)) = Cardinality(low) + Cardinality(high) /\ Cardinality(low) \in Nat /\ Cardinality(high) \in Nat
  <2>1. Cardinality(OpsOf(T)) = Cardinality(low) + Cardinality(high) - Cardinality(low \cap high)
    BY <1>5, <1>10, FS_Union
  <2>2. Cardinality(low \cap high) = 0 /\ Cardinality(low) \in Nat /\ Cardinality(high) \in Nat
    BY <1>5, <1>10, FS_EmptySet, FS_CardinalityType
  <2> QED BY <2>1, <2>2
<1>15. IsFiniteSet(idsHigh) /\ Cardinality(idsHigh) <= Cardinality(high) /\ Cardinality(idsHigh) \in Nat
  BY <1>10, <1>12, IdsOfOps
<1>16. IsFiniteSet(IdsUpTo(D, p)) /\ Cardinality(IdsUpTo(D, p)) \in Nat /\ Cardinality(IdsUpTo(D, k)) \in Nat
  BY IdsAreCounted
<1>17. Cardinality(IdsUpTo(D, k)) <= Cardinality(IdsUpTo(D, p)) + Cardinality(idsHigh)
  <2> DEFINE U == IdsUpTo(D, p) \cup idsHigh
  <2>1. IsFiniteSet(U) /\ Cardinality(U) = Cardinality(IdsUpTo(D, p)) + Cardinality(idsHigh) - Cardinality(IdsUpTo(D, p) \cap idsHigh)
    BY <1>15, <1>16, FS_Union
  <2>2. IsFiniteSet(IdsUpTo(D, p) \cap idsHigh) /\ Cardinality(IdsUpTo(D, p) \cap idsHigh) \in Nat
    BY <1>15, FS_Subset, FS_CardinalityType
  <2>3. IdsUpTo(D, k) \subseteq U
    BY <1>11
  <2> HIDE DEF U
  <2>4. Cardinality(IdsUpTo(D, k)) <= Cardinality(U) /\ Cardinality(U) \in Nat
    BY <2>1, <2>3, FS_Subset, FS_CardinalityType
  <2> QED BY <1>15, <1>16, <2>1, <2>2, <2>4
<1>18. SumChecksums(Between(L, 0, p)) \in Nat /\ SumChecksums(Between(L, p, k)) \in Nat /\ SumChecksums(OpsOf(T)) \in Nat
  <2>1. SumChecksums(Between(L, 0, p)) \in Nat /\ SumChecksums(Between(L, p, k)) \in Nat
    BY <1>0, BetweenIs, SumType
  <2> QED BY <1>13, <2>1
<1> QED BY <1>6, <1>8, <1>9, <1>13, <1>14, <1>15, <1>16, <1>17, <1>18
===============================================================================
