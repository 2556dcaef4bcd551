----------------------------- MODULE SumTheorems -----------------------------
(***************************************************************************)
(* Sums over finite sets: what MapThenSumSet computes.  Induction on the   *)
(* size of a set goes through the least size of a set that is an           *)
(* exception, because the provers cannot instantiate the library's         *)
(* induction theorems.                                                     *)
(***************************************************************************)
EXTENDS Integers, SequencesExt, FiniteSetTheorems, SequenceTheorems, WellFoundedInduction, TLAPS

(***************************************************************************)
(* Sets of naturals have a least element.                                  *)
(***************************************************************************)

LesserThan == {p \in Nat \X Nat : p[1] < p[2]}

LEMMA LesserThanWellFounded == IsWellFoundedOn(LesserThan, Nat)
<1>1. OpToRel(<, Nat) = LesserThan
  BY DEF OpToRel, LesserThan
<1> QED BY <1>1, NatLessThanWellFounded, Zenon

LEMMA LeastNumber ==
  ASSUME NEW S \in SUBSET Nat, S # {}
  PROVE  \E m \in S : \A y \in S : m <= y
<1>1. PICK m \in S : \A y \in S : <<y, m>> \notin LesserThan
  BY LesserThanWellFounded, WFMin, Zenon
<1>2. ASSUME NEW y \in S PROVE m <= y
  <2>1. y \in Nat /\ m \in Nat
    OBVIOUS
  <2>2. <<y, m>> \in LesserThan <=> y < m
    BY <2>1 DEF LesserThan
  <2> QED BY <1>1, <2>1, <2>2
<1> QED BY <1>2

(* A set of finite sets that is not empty has one than which no member is  *)
(* smaller: the least exception of an induction on the size.               *)
LEMMA SmallestSet ==
  ASSUME NEW S, IsFiniteSet(S), NEW Bad \in SUBSET SUBSET S, Bad # {}
  PROVE  \E s \in Bad : \A t \in SUBSET S : Cardinality(t) < Cardinality(s) => t \notin Bad
<1> DEFINE sizes == {Cardinality(s) : s \in Bad}
<1>1. \A s \in SUBSET S : Cardinality(s) \in Nat
  BY FS_Subset, FS_CardinalityType
<1>2. sizes \in SUBSET Nat /\ sizes # {}
  BY <1>1
<1>3. PICK m \in sizes : \A y \in sizes : m <= y
  <2> HIDE DEF sizes
  <2> QED BY <1>2, LeastNumber
<1>4. PICK s \in Bad : Cardinality(s) = m
  OBVIOUS
<1>5. ASSUME NEW t \in SUBSET S, Cardinality(t) < Cardinality(s) PROVE t \notin Bad
  <2>1. SUFFICES ASSUME t \in Bad PROVE FALSE
    OBVIOUS
  <2>2. m <= Cardinality(t)
    BY <1>3, <2>1
  <2> QED BY <1>1, <1>4, <1>5, <2>2
<1> QED BY <1>5

LEMMA Smaller ==
  ASSUME NEW S, IsFiniteSet(S), NEW s \in SUBSET S, NEW x \in s
  PROVE  /\ s \ {x} \in SUBSET S
         /\ Cardinality(s \ {x}) = Cardinality(s) - 1 /\ Cardinality(s) \in Nat
         /\ Cardinality(s \ {x}) < Cardinality(s)
<1>1. IsFiniteSet(s) /\ Cardinality(s) \in Nat
  BY FS_Subset, FS_CardinalityType
<1>2. Cardinality(s \ {x}) = Cardinality(s) - 1
  BY <1>1, FS_RemoveElement
<1> QED BY <1>1, <1>2

(***************************************************************************)
(* A fold adds up the values of f, the elements taken in the order of      *)
(* their CHOOSE.                                                           *)
(***************************************************************************)

Pick(s) == CHOOSE x \in s : TRUE
Folds(g, f, S) ==
    g = [s \in SUBSET S |-> IF s = {} THEN 0 ELSE f[Pick(s)] + g[s \ {Pick(s)}]]

LEMMA Picked == \A s : s # {} => Pick(s) \in s
  BY DEF Pick

LEMMA FoldStep ==
  ASSUME NEW S, NEW f, NEW g, Folds(g, f, S), NEW s \in SUBSET S
  PROVE  /\ s = {} => g[s] = 0
         /\ s # {} => Pick(s) \in s /\ g[s] = f[Pick(s)] + g[s \ {Pick(s)}]
  BY Picked DEF Folds

(* There is such a function.                                               *)
LEMMA FoldExists ==
  ASSUME NEW S, IsFiniteSet(S), NEW f, \A x \in S : f[x] \in Int
  PROVE  \E g \in [SUBSET S -> Int] : Folds(g, f, S)
<1> DEFINE Small(n) == {s \in SUBSET S : Cardinality(s) <= n}
           Part(g, n) == \A s \in Small(n) : g[s] = IF s = {} THEN 0 ELSE f[Pick(s)] + g[s \ {Pick(s)}]
           Bad == {n \in Nat : ~ \E g \in [Small(n) -> Int] : Part(g, n)}
<1>0. \A s \in SUBSET S : Cardinality(s) \in Nat /\ (s # {} => Pick(s) \in S /\ f[Pick(s)] \in Int)
  BY FS_Subset, FS_CardinalityType, Picked
<1>1. Bad = {}
  <2>1. SUFFICES ASSUME Bad # {} PROVE FALSE
    OBVIOUS
  <2>2. PICK m \in Bad : \A y \in Bad : m <= y
    <3> HIDE DEF Bad
    <3>1. Bad \in SUBSET Nat
      BY DEF Bad
    <3> QED BY <2>1, <3>1, LeastNumber
  <2>3. m \in Nat /\ ~ \E g \in [Small(m) -> Int] : Part(g, m)
    OBVIOUS
  <2>4. CASE m = 0
    <3> DEFINE g == [s \in Small(0) |-> 0]
    <3>1. \A s \in Small(0) : s = {}
      BY <1>0, FS_Subset, FS_EmptySet
    <3>2. g \in [Small(0) -> Int] /\ Part(g, 0)
      BY <3>1
    <3> QED BY <2>3, <2>4, <3>2
  <2>5. CASE m # 0
    <3>1. m - 1 \in Nat /\ m - 1 \notin Bad
      <4>1. m \in Nat /\ \A y \in Bad : m <= y
        BY <2>2, <2>3
      <4> HIDE DEF Bad
      <4> QED BY <2>5, <4>1
    <3>2. PICK g \in [Small(m - 1) -> Int] : Part(g, m - 1)
      BY <3>1
    <3> DEFINE h == [s \in Small(m) |-> IF s = {} THEN 0 ELSE f[Pick(s)] + g[s \ {Pick(s)}]]
    <3>3. ASSUME NEW s \in Small(m), s # {} PROVE s \ {Pick(s)} \in Small(m - 1)
      <4>1. Pick(s) \in s /\ s \in SUBSET S /\ Cardinality(s) <= m
        BY <3>3, Picked
      <4>2. /\ s \ {Pick(s)} \in SUBSET S /\ Cardinality(s \ {Pick(s)}) = Cardinality(s) - 1
            /\ Cardinality(s) \in Nat
        BY <4>1, Smaller
      <4> QED BY <4>1, <4>2, <2>3
    <3>4. \A s \in Small(m - 1) : s \in Small(m)
      BY <1>0, <2>3
    <3>5. \A s \in Small(m - 1) : h[s] = g[s]
      BY <3>2, <3>4
    <3>6. h \in [Small(m) -> Int]
      <4>1. ASSUME NEW s \in Small(m), s # {} PROVE f[Pick(s)] + g[s \ {Pick(s)}] \in Int
        BY <1>0, <3>2, <3>3, <4>1
      <4> QED BY <4>1
    <3>7. Part(h, m)
      BY <3>3, <3>5
    <3> QED BY <2>3, <3>6, <3>7
  <2> QED BY <2>4, <2>5
<1>2. Cardinality(S) \in Nat /\ \A s \in SUBSET S : Cardinality(s) <= Cardinality(S)
  BY FS_CardinalityType, FS_Subset
<1>3. Small(Cardinality(S)) = SUBSET S
  BY <1>2
<1>4. PICK g \in [Small(Cardinality(S)) -> Int] : Part(g, Cardinality(S))
  BY <1>1, <1>2
<1>5. Folds(g, f, S)
  BY <1>3, <1>4 DEF Folds
<1> QED BY <1>3, <1>4, <1>5

(* Two folds agree where their functions do, whichever sets they are over. *)
LEMMA FoldsAgree ==
  ASSUME NEW S, NEW T, NEW E, E \subseteq S, E \subseteq T, IsFiniteSet(E),
         NEW f, NEW h, \A x \in E : f[x] = h[x],
         NEW g, Folds(g, f, S), NEW k, Folds(k, h, T)
  PROVE  \A s \in SUBSET E : g[s] = k[s]
<1> DEFINE Bad == {s \in SUBSET E : g[s] # k[s]}
<1>1. SUFFICES ASSUME Bad # {} PROVE FALSE
  OBVIOUS
<1>2. PICK s \in Bad : \A t \in SUBSET E : Cardinality(t) < Cardinality(s) => t \notin Bad
  <2>1. Bad \in SUBSET SUBSET E
    OBVIOUS
  <2> HIDE DEF Bad
  <2> QED BY <1>1, <2>1, SmallestSet
<1>3. s \in SUBSET E /\ s \in SUBSET S /\ s \in SUBSET T /\ g[s] # k[s]
  OBVIOUS
<1>4. s # {}
  BY <1>3, FoldStep
<1>5. Pick(s) \in s /\ g[s] = f[Pick(s)] + g[s \ {Pick(s)}] /\ k[s] = h[Pick(s)] + k[s \ {Pick(s)}]
  BY <1>3, <1>4, FoldStep
<1>6. s \ {Pick(s)} \in SUBSET E /\ s \ {Pick(s)} \notin Bad
  BY <1>2, <1>3, <1>5, Smaller
<1> QED BY <1>3, <1>5, <1>6

(* Any element may be taken first.                                         *)
TakesAny(g, f, S) == \A s \in SUBSET S : \A x \in s : g[s] = f[x] + g[s \ {x}]

LEMMA FoldAny ==
  ASSUME NEW S, IsFiniteSet(S), NEW f, \A x \in S : f[x] \in Int,
         NEW g, g \in [SUBSET S -> Int], Folds(g, f, S)
  PROVE  TakesAny(g, f, S)
<1> USE DEF TakesAny
<1> DEFINE Bad == {s \in SUBSET S : \E x \in s : g[s] # f[x] + g[s \ {x}]}
<1>1. SUFFICES ASSUME Bad # {} PROVE FALSE
  OBVIOUS
<1>2. PICK s \in Bad : \A t \in SUBSET S : Cardinality(t) < Cardinality(s) => t \notin Bad
  <2>1. Bad \in SUBSET SUBSET S
    OBVIOUS
  <2> HIDE DEF Bad
  <2> QED BY <1>1, <2>1, SmallestSet
<1>3. s \in SUBSET S /\ \E x \in s : g[s] # f[x] + g[s \ {x}]
  OBVIOUS
<1>4. PICK x \in s : g[s] # f[x] + g[s \ {x}]
  BY <1>3
<1> DEFINE p == Pick(s)
<1>5. p \in s /\ g[s] = f[p] + g[s \ {p}]
  BY <1>3, <1>4, FoldStep
<1>6. p # x
  BY <1>4, <1>5
<1>7. g[s \ {p}] = f[x] + g[(s \ {p}) \ {x}] /\ g[s \ {x}] = f[p] + g[(s \ {x}) \ {p}]
  <2>1. /\ s \ {p} \in SUBSET S /\ s \ {p} \notin Bad /\ x \in s \ {p}
        /\ s \ {x} \in SUBSET S /\ s \ {x} \notin Bad /\ p \in s \ {x}
    BY <1>2, <1>3, <1>4, <1>5, <1>6, Smaller
  <2> HIDE DEF p
  <2> QED BY <2>1
<1>8. (s \ {p}) \ {x} = (s \ {x}) \ {p}
  OBVIOUS
<1>9. f[p] \in Int /\ f[x] \in Int /\ g[(s \ {p}) \ {x}] \in Int
  BY <1>3, <1>4, <1>5
<1>10. g[(s \ {p}) \ {x}] = g[(s \ {x}) \ {p}]
  BY <1>8
<1>11. \A a, b, c \in Int : a + (b + c) = b + (a + c)
  OBVIOUS
<1> HIDE DEF p
<1> QED BY <1>4, <1>5, <1>7, <1>9, <1>10, <1>11

(***************************************************************************)
(* The sum of f over a finite set.                                         *)
(***************************************************************************)

TotalOf(f, E) == (CHOOSE g : Folds(g, f, E))[E]

(* A function on the subsets of E that folds f and yields its sums.        *)
Adds(g, f, E) == /\ g \in [SUBSET E -> Int] /\ Folds(g, f, E)
                 /\ \A s \in SUBSET E : TotalOf(f, s) = g[s]

LEMMA TotalFolds ==
  ASSUME NEW E, IsFiniteSet(E), NEW f, \A x \in E : f[x] \in Int
  PROVE  \E g : Adds(g, f, E)
<1>1. PICK g \in [SUBSET E -> Int] : Folds(g, f, E)
  BY FoldExists
<1>2. ASSUME NEW s \in SUBSET E PROVE TotalOf(f, s) = g[s]
  <2>1. IsFiniteSet(s) /\ \A x \in s : f[x] \in Int
    BY FS_Subset
  <2>2. \E k : Folds(k, f, s)
    BY <2>1, FoldExists
  <2>3. PICK k : Folds(k, f, s) /\ TotalOf(f, s) = k[s]
    BY <2>2 DEF TotalOf
  <2> QED BY <1>1, <2>1, <2>3, FoldsAgree
<1> QED BY <1>1, <1>2 DEF Adds

(* Whatever folds f, by CHOOSE or not, yields its sum.                     *)
LEMMA TotalIsFold ==
  ASSUME NEW E, IsFiniteSet(E), NEW f, \A x \in E : f[x] \in Int,
         NEW h, \A x \in E : h[x] = f[x], NEW k, Folds(k, h, E)
  PROVE  k[E] = TotalOf(f, E)
<1>1. PICK g : Adds(g, f, E)
  BY TotalFolds
<1> QED BY <1>1, FoldsAgree DEF Adds

LEMMA TotalSame ==
  ASSUME NEW E, IsFiniteSet(E), NEW f, \A x \in E : f[x] \in Int,
         NEW h, \A x \in E : h[x] = f[x]
  PROVE  TotalOf(h, E) = TotalOf(f, E)
<1>1. PICK k : Adds(k, h, E)
  BY TotalFolds
<1> QED BY <1>1, TotalIsFold DEF Adds

LEMMA TotalEmpty == \A f : TotalOf(f, {}) = 0
<1> SUFFICES ASSUME NEW f PROVE TotalOf(f, {}) = 0
  OBVIOUS
<1>1. IsFiniteSet({}) /\ \A x \in {} : f[x] \in Int
  BY FS_EmptySet
<1>2. PICK g : Adds(g, f, {})
  BY <1>1, TotalFolds
<1>3. {} \in SUBSET {} /\ Folds(g, f, {}) /\ TotalOf(f, {}) = g[{}]
  BY <1>2 DEF Adds
<1> QED BY <1>3, FoldStep

LEMMA TotalTake ==
  ASSUME NEW E, IsFiniteSet(E), NEW f, \A x \in E : f[x] \in Int
  PROVE  /\ TotalOf(f, E) \in Int
         /\ \A x \in E : /\ TotalOf(f, E) = f[x] + TotalOf(f, E \ {x})
                        /\ TotalOf(f, E \ {x}) \in Int
<1>1. PICK g : Adds(g, f, E)
  BY TotalFolds
<1>2. TakesAny(g, f, E)
  <2>1. g \in [SUBSET E -> Int] /\ Folds(g, f, E)
    BY <1>1 DEF Adds
  <2> QED BY <2>1, FoldAny
<1> QED BY <1>1, <1>2 DEF Adds, TakesAny

(* An element more adds its value.                                         *)
LEMMA TotalAdd ==
  ASSUME NEW E, IsFiniteSet(E), NEW x, x \notin E, NEW f, \A y \in E \cup {x} : f[y] \in Int
  PROVE  TotalOf(f, E \cup {x}) = TotalOf(f, E) + f[x]
<1>1. IsFiniteSet(E \cup {x}) /\ (E \cup {x}) \ {x} = E
  BY FS_AddElement
<1>2. /\ TotalOf(f, E \cup {x}) = f[x] + TotalOf(f, (E \cup {x}) \ {x})
      /\ TotalOf(f, (E \cup {x}) \ {x}) \in Int
  BY <1>1, TotalTake
<1>3. TotalOf(f, (E \cup {x}) \ {x}) = TotalOf(f, E)
  BY <1>1
<1> QED BY <1>2, <1>3

(* Sums of naturals are naturals, and no less than any of their terms.     *)
LEMMA TotalNat ==
  ASSUME NEW E, IsFiniteSet(E), NEW f, \A x \in E : f[x] \in Nat
  PROVE  TotalOf(f, E) \in Nat /\ \A x \in E : f[x] <= TotalOf(f, E)
<1> DEFINE Bad == {s \in SUBSET E : TotalOf(f, s) \notin Nat}
<1>0. \A s \in SUBSET E : IsFiniteSet(s) /\ \A x \in s : f[x] \in Int
  BY FS_Subset
<1>1. Bad = {}
  <2>1. SUFFICES ASSUME Bad # {} PROVE FALSE
    OBVIOUS
  <2>2. PICK s \in Bad : \A t \in SUBSET E : Cardinality(t) < Cardinality(s) => t \notin Bad
    <3>1. Bad \in SUBSET SUBSET E
      OBVIOUS
    <3> HIDE DEF Bad
    <3> QED BY <2>1, <3>1, SmallestSet
  <2>3. s \in SUBSET E /\ TotalOf(f, s) \notin Nat
    OBVIOUS
  <2>4. PICK x \in s : TRUE
    BY <2>3, TotalEmpty
  <2>5. s \ {x} \in SUBSET E /\ s \ {x} \notin Bad
    BY <2>2, <2>3, Smaller
  <2>6. TotalOf(f, s \ {x}) \in Nat
    BY <2>5
  <2>7. TotalOf(f, s) = f[x] + TotalOf(f, s \ {x})
    BY <1>0, <2>3, TotalTake
  <2> QED BY <2>3, <2>6, <2>7
<1>2. \A s \in SUBSET E : TotalOf(f, s) \in Nat
  BY <1>1
<1>3. ASSUME NEW x \in E PROVE f[x] <= TotalOf(f, E)
  <2>1. TotalOf(f, E) = f[x] + TotalOf(f, E \ {x})
    BY <1>0, TotalTake
  <2>2. TotalOf(f, E \ {x}) \in Nat
    BY <1>2
  <2> QED BY <2>1, <2>2
<1> QED BY <1>2, <1>3

(* The sum over two sets that share nothing.                               *)
LEMMA TotalUnion ==
  ASSUME NEW A, IsFiniteSet(A), NEW B, IsFiniteSet(B), A \cap B = {},
         NEW f, \A x \in A \cup B : f[x] \in Int
  PROVE  TotalOf(f, A \cup B) = TotalOf(f, A) + TotalOf(f, B)
<1> DEFINE Bad == {s \in SUBSET B : TotalOf(f, A \cup s) # TotalOf(f, A) + TotalOf(f, s)}
<1>1. SUFFICES ASSUME Bad # {} PROVE FALSE
  OBVIOUS
<1>2. PICK s \in Bad : \A t \in SUBSET B : Cardinality(t) < Cardinality(s) => t \notin Bad
  <2>1. Bad \in SUBSET SUBSET B
    OBVIOUS
  <2> HIDE DEF Bad
  <2> QED BY <1>1, <2>1, SmallestSet
<1>3. s \in SUBSET B /\ TotalOf(f, A \cup s) # TotalOf(f, A) + TotalOf(f, s)
  OBVIOUS
<1>4. TotalOf(f, A) \in Int
  BY TotalTake
<1>5. s # {}
  <2>1. SUFFICES ASSUME s = {} PROVE FALSE
    OBVIOUS
  <2>2. A \cup s = A /\ TotalOf(f, s) = 0
    BY <2>1, TotalEmpty
  <2>3. TotalOf(f, A \cup s) = TotalOf(f, A)
    BY <2>2
  <2> QED BY <1>3, <1>4, <2>2, <2>3
<1>6. PICK x \in s : TRUE
  BY <1>5
<1>7. s \ {x} \in SUBSET B /\ TotalOf(f, A \cup (s \ {x})) = TotalOf(f, A) + TotalOf(f, s \ {x})
  <2>1. s \ {x} \in SUBSET B /\ s \ {x} \notin Bad
    BY <1>2, <1>3, <1>6, Smaller
  <2> QED BY <2>1
<1>8. TotalOf(f, s) = f[x] + TotalOf(f, s \ {x}) /\ TotalOf(f, s \ {x}) \in Int /\ f[x] \in Int
  BY <1>3, <1>6, TotalTake, FS_Subset
<1>9. TotalOf(f, A \cup s) = f[x] + TotalOf(f, (A \cup s) \ {x})
  <2>1. IsFiniteSet(A \cup s) /\ \A y \in A \cup s : f[y] \in Int
    BY <1>3, FS_Subset, FS_Union
  <2> QED BY <1>6, <2>1, TotalTake
<1>10. (A \cup s) \ {x} = A \cup (s \ {x})
  BY <1>3, <1>6
<1>11. TotalOf(f, (A \cup s) \ {x}) = TotalOf(f, A) + TotalOf(f, s \ {x})
  BY <1>7, <1>10
<1>12. \A a, b, c \in Int : a + (b + c) = b + (a + c)
  OBVIOUS
<1> QED BY <1>3, <1>4, <1>8, <1>9, <1>11, <1>12

(* Sums of naturals over a part are no greater.                            *)
LEMMA TotalPart ==
  ASSUME NEW B, IsFiniteSet(B), NEW A \in SUBSET B, NEW f, \A x \in B : f[x] \in Nat
  PROVE  TotalOf(f, A) <= TotalOf(f, B)
<1>1. IsFiniteSet(A) /\ IsFiniteSet(B \ A) /\ A \cap (B \ A) = {} /\ A \cup (B \ A) = B
  BY FS_Subset
<1>2. TotalOf(f, A \cup (B \ A)) = TotalOf(f, A) + TotalOf(f, B \ A)
  <2>1. \A x \in A \cup (B \ A) : f[x] \in Int
    OBVIOUS
  <2> QED BY <1>1, <2>1, TotalUnion
<1>3. TotalOf(f, A) \in Nat /\ TotalOf(f, B \ A) \in Nat
  BY <1>1, TotalNat
<1>4. TotalOf(f, B) = TotalOf(f, A) + TotalOf(f, B \ A)
  BY <1>1, <1>2
<1> QED BY <1>3, <1>4

(* Counting is adding ones.                                                *)
LEMMA TotalOnes ==
  ASSUME NEW E, IsFiniteSet(E), NEW f, \A x \in E : f[x] = 1
  PROVE  TotalOf(f, E) = Cardinality(E)
<1> DEFINE Bad == {s \in SUBSET E : TotalOf(f, s) # Cardinality(s)}
<1>1. SUFFICES ASSUME Bad # {} PROVE FALSE
  OBVIOUS
<1>2. PICK s \in Bad : \A t \in SUBSET E : Cardinality(t) < Cardinality(s) => t \notin Bad
  <2>1. Bad \in SUBSET SUBSET E
    OBVIOUS
  <2> HIDE DEF Bad
  <2> QED BY <1>1, <2>1, SmallestSet
<1>3. s \in SUBSET E /\ TotalOf(f, s) # Cardinality(s) /\ IsFiniteSet(s)
  BY FS_Subset
<1>4. s # {}
  BY <1>3, TotalEmpty, FS_EmptySet
<1>5. PICK x \in s : TRUE
  BY <1>4
<1>6. /\ s \ {x} \in SUBSET E /\ s \ {x} \notin Bad /\ Cardinality(s) \in Nat
      /\ Cardinality(s \ {x}) = Cardinality(s) - 1
  BY <1>2, <1>3, <1>5, Smaller
<1>7. TotalOf(f, s \ {x}) = Cardinality(s) - 1
  BY <1>6
<1>8. TotalOf(f, s) = 1 + TotalOf(f, s \ {x})
  <2>1. \A y \in s : f[y] \in Int
    BY <1>3
  <2>2. TotalOf(f, s) = f[x] + TotalOf(f, s \ {x})
    BY <1>3, <1>5, <2>1, TotalTake
  <2> QED BY <1>3, <1>5, <2>2
<1> QED BY <1>3, <1>6, <1>7, <1>8

(* Summing group by group is summing.                                      *)
GroupOf(E, key, h) == {x \in E : key[x] = h}

LEMMA TotalGrouped ==
  ASSUME NEW E, IsFiniteSet(E), NEW H, IsFiniteSet(H), NEW f, \A x \in E : f[x] \in Int,
         NEW key, \A x \in E : key[x] \in H,
         NEW g, \A h \in H : g[h] = TotalOf(f, GroupOf(E, key, h))
  PROVE  TotalOf(g, H) = TotalOf(f, E)
<1> DEFINE In(K) == {x \in E : key[x] \in K}
           Group(h) == {x \in E : key[x] = h}
           Bad == {K \in SUBSET H : TotalOf(g, K) # TotalOf(f, In(K))}
<1>1. \A K : IsFiniteSet(In(K)) /\ \A x \in In(K) : f[x] \in Int
  BY FS_Subset
<1>2. \A h : IsFiniteSet(Group(h)) /\ \A x \in Group(h) : f[x] \in Int
  BY FS_Subset
<1>3. \A h \in H : g[h] = TotalOf(f, Group(h)) /\ g[h] \in Int
  BY <1>2, TotalTake DEF GroupOf
<1>4. Bad = {}
  <2>1. SUFFICES ASSUME Bad # {} PROVE FALSE
    OBVIOUS
  <2>2. PICK K \in Bad : \A t \in SUBSET H : Cardinality(t) < Cardinality(K) => t \notin Bad
    <3>1. Bad \in SUBSET SUBSET H
      OBVIOUS
    <3> HIDE DEF Bad
    <3> QED BY <2>1, <3>1, SmallestSet
  <2>3. K \in SUBSET H /\ TotalOf(g, K) # TotalOf(f, In(K)) /\ IsFiniteSet(K)
    BY FS_Subset
  <2>4. K # {}
    <3>1. SUFFICES ASSUME K = {} PROVE FALSE
      OBVIOUS
    <3>2. In(K) = {}
      BY <3>1
    <3> HIDE DEF In
    <3> QED BY <2>3, <3>1, <3>2, TotalEmpty
  <2>5. PICK h \in K : TRUE
    BY <2>4
  <2>6. K \ {h} \in SUBSET H /\ K \ {h} \notin Bad
    BY <2>2, <2>3, <2>5, Smaller
  <2>7. TotalOf(g, K \ {h}) = TotalOf(f, In(K \ {h}))
    BY <2>6
  <2>8. TotalOf(g, K) = g[h] + TotalOf(g, K \ {h})
    <3>1. \A k \in K : g[k] \in Int
      BY <1>3, <2>3
    <3> QED BY <2>3, <2>5, <3>1, TotalTake
  <2>9. In(K) = In(K \ {h}) \cup Group(h) /\ In(K \ {h}) \cap Group(h) = {}
    BY <2>5
  <2>10. TotalOf(f, In(K \ {h}) \cup Group(h)) = TotalOf(f, In(K \ {h})) + TotalOf(f, Group(h))
    <3>1. \A x \in In(K \ {h}) \cup Group(h) : f[x] \in Int
      BY <1>1, <1>2
    <3>2. IsFiniteSet(In(K \ {h})) /\ IsFiniteSet(Group(h))
      BY <1>1, <1>2
    <3> HIDE DEF In, Group
    <3> QED BY <2>9, <3>1, <3>2, TotalUnion
  <2>11. TotalOf(f, In(K \ {h})) \in Int /\ TotalOf(f, Group(h)) \in Int
    <3> HIDE DEF In, Group
    <3> QED BY <1>1, <1>2, TotalTake
  <2>12. g[h] = TotalOf(f, Group(h))
    BY <1>3, <2>3, <2>5
  <2>13. TotalOf(f, In(K)) = TotalOf(f, In(K \ {h}) \cup Group(h))
    BY <2>9
  <2> HIDE DEF In, Group
  <2> QED BY <2>3, <2>7, <2>8, <2>10, <2>11, <2>12, <2>13
<1>5. TotalOf(g, H) = TotalOf(f, In(H))
  BY <1>4
<1>6. In(H) = E
  OBVIOUS
<1> QED BY <1>5, <1>6

(***************************************************************************)
(* Numbers.                                                                *)
(***************************************************************************)

(* What holds at m and is handed on from each number to the next holds up  *)
(* to n.                                                                   *)
LEMMA Upwards ==
  ASSUME NEW m \in Nat, NEW n \in Nat, NEW P, m \in P,
         \A i \in m .. n - 1 : i \in P => i + 1 \in P
  PROVE  \A i \in m .. n : i \in P
<1> DEFINE Bad == {i \in m .. n : i \notin P}
<1>1. SUFFICES ASSUME Bad # {} PROVE FALSE
  OBVIOUS
<1>2. PICK k \in Bad : \A y \in Bad : k <= y
  <2>1. Bad \in SUBSET Nat
    OBVIOUS
  <2> HIDE DEF Bad
  <2> QED BY <1>1, <2>1, LeastNumber
<1>3. k \in m .. n /\ k \notin P /\ k # m
  OBVIOUS
<1>4. k - 1 \in m .. n - 1 /\ k - 1 \notin Bad
  <2>1. k - 1 \in m .. n - 1
    BY <1>3
  <2> HIDE DEF Bad
  <2> QED BY <1>2, <1>3, <2>1
<1>5. k - 1 \in P
  BY <1>4
<1>6. (k - 1) + 1 \in P /\ (k - 1) + 1 = k
  BY <1>3, <1>4, <1>5
<1> QED BY <1>3, <1>6

(* The least of a set of naturals.                                         *)
LEMMA MinNat ==
  ASSUME NEW S \in SUBSET Nat, S # {}
  PROVE  Min(S) \in S /\ \A y \in S : Min(S) <= y
BY LeastNumber DEF Min

(* The lesser of two integers.                                             *)
LEMMA MinTwo ==
  ASSUME NEW a \in Int, NEW b \in Int
  PROVE  Min({a, b}) = IF a <= b THEN a ELSE b
BY DEF Min

(* The greatest of numbers up to n.                                        *)
LEMMA MaxNat ==
  ASSUME NEW n \in Nat, NEW s \in SUBSET (1 .. n), s # {}
  PROVE  Max(s) \in s /\ \A y \in s : y <= Max(s)
<1> DEFINE T == {n - y : y \in s}
<1>1. T \in SUBSET Nat /\ T # {}
  <2>1. \A y \in s : n - y \in Nat
    OBVIOUS
  <2> QED BY <2>1
<1>2. PICK m \in T : \A y \in T : m <= y
  <2> HIDE DEF T
  <2> QED BY <1>1, LeastNumber
<1>3. PICK x \in s : m = n - x
  OBVIOUS
<1>4. ASSUME NEW y \in s PROVE x >= y
  <2>1. m <= n - y
    BY <1>2
  <2> QED BY <1>3, <2>1
<1>5. \E z \in s : \A y \in s : z >= y
  BY <1>4
<1>6. Max(s) \in s /\ \A y \in s : Max(s) >= y
  BY <1>5 DEF Max
<1>7. \A y \in s : y <= Max(s)
  BY <1>6
<1> QED BY <1>6, <1>7

(***************************************************************************)
(* A fold over a sequence of length n, whose elements are given by what    *)
(* they do to the values gathered: MapThenFoldSet takes the greatest index *)
(* off the set first, so that the least is folded first.                   *)
(***************************************************************************)

Gathers(g, base, step, n) ==
    g = [s \in SUBSET (1 .. n) |-> IF s = {} THEN base ELSE step[Max(s)][g[s \ {Max(s)}]]]

(* Every fold over the indices of a sequence has a function that computes  *)
(* it.                                                                     *)
LEMMA GatherExists ==
  ASSUME NEW n \in Nat, NEW X, NEW base \in X, NEW step \in [1 .. n -> [X -> X]]
  PROVE  \E g \in [SUBSET (1 .. n) -> X] : Gathers(g, base, step, n)
<1> DEFINE S == 1 .. n
           Small(k) == {s \in SUBSET S : Cardinality(s) <= k}
           Part(g, k) == \A s \in Small(k) : g[s] = IF s = {} THEN base ELSE step[Max(s)][g[s \ {Max(s)}]]
           P == {k \in Nat : \E g \in [Small(k) -> X] : Part(g, k)}
<1>a. IsFiniteSet(S) /\ Cardinality(S) = n
  BY FS_Interval
<1>b. \A s \in SUBSET S : s # {} => Max(s) \in s /\ Max(s) \in 1 .. n
  BY MaxNat
<1>0. \A s \in SUBSET S : IsFiniteSet(s) /\ Cardinality(s) \in Nat /\ Cardinality(s) <= n
  <2> HIDE DEF S
  <2> QED BY <1>a, FS_Subset, FS_CardinalityType
<1>1. 0 \in P
  <2> DEFINE g == [s \in Small(0) |-> base]
  <2>1. \A s \in Small(0) : s = {}
    <3>1. \A s \in SUBSET S : Cardinality(s) <= 0 => s = {}
      <4> HIDE DEF S
      <4> QED BY <1>0, FS_EmptySet
    <3> QED BY <3>1
  <2>2. g \in [Small(0) -> X] /\ Part(g, 0)
    BY <2>1
  <2> QED BY <2>2
<1>2. ASSUME NEW k \in Nat, k \in P PROVE k + 1 \in P
  <2>1. PICK g \in [Small(k) -> X] : Part(g, k)
    BY <1>2
  <2> DEFINE h == [s \in Small(k + 1) |-> IF s = {} THEN base ELSE step[Max(s)][g[s \ {Max(s)}]]]
  <2>2. ASSUME NEW s \in Small(k + 1), s # {} PROVE s \ {Max(s)} \in Small(k)
    <3>1. Max(s) \in s /\ s \in SUBSET S /\ Cardinality(s) <= k + 1
      BY <1>b, <2>2
    <3>2. /\ s \ {Max(s)} \in SUBSET S /\ Cardinality(s \ {Max(s)}) = Cardinality(s) - 1
          /\ Cardinality(s) \in Nat
      <4> HIDE DEF S
      <4> QED BY <1>a, <3>1, Smaller
    <3> QED BY <3>1, <3>2
  <2>3. \A s \in Small(k) : s \in Small(k + 1)
    BY <1>0
  <2>4. \A s \in Small(k) : h[s] = g[s]
    BY <2>1, <2>3
  <2>5. h \in [Small(k + 1) -> X]
    <3>1. ASSUME NEW s \in Small(k + 1), s # {} PROVE step[Max(s)][g[s \ {Max(s)}]] \in X
      <4>1. g[s \ {Max(s)}] \in X /\ Max(s) \in 1 .. n
        BY <1>b, <2>1, <2>2, <3>1
      <4> QED BY <4>1
    <3> QED BY <3>1
  <2>6. Part(h, k + 1)
    BY <2>2, <2>4
  <2> HIDE DEF h, Part, Small
  <2> QED BY <2>5, <2>6
<1>3. n \in P
  <2>1. \A i \in 0 .. n - 1 : i \in P => i + 1 \in P
    <3> HIDE DEF P
    <3> QED BY <1>2
  <2> HIDE DEF P
  <2>2. \A i \in 0 .. n : i \in P
    BY <1>1, <2>1, Upwards
  <2> QED BY <2>2
<1>4. Small(n) = SUBSET S
  BY <1>0
<1>5. PICK g \in [Small(n) -> X] : Part(g, n)
  BY <1>3
<1>6. Gathers(g, base, step, n) /\ g \in [SUBSET (1 .. n) -> X]
  BY <1>4, <1>5 DEF Gathers
<1> QED BY <1>6

(* What any function that folds so has gathered after each element.        *)
Gathered(acc, base, step, n, X) ==
    /\ acc \in [0 .. n -> X] /\ acc[0] = base
    /\ \A i \in 1 .. n : acc[i] = step[i][acc[i - 1]]

Recurs(k, base, step, n, X) ==
    /\ k[{}] = base
    /\ \A s \in SUBSET (1 .. n) :
          (s # {} /\ k[s \ {Max(s)}] \in X) => k[s] = step[Max(s)][k[s \ {Max(s)}]]

(* What MapThenFoldSet chooses folds so: its values can be followed index  *)
(* by index.                                                               *)
LEMMA GatherSteps ==
  ASSUME NEW n \in Nat, NEW X, NEW base \in X, NEW step \in [1 .. n -> [X -> X]],
         NEW k, Recurs(k, base, step, n, X)
  PROVE  \E acc : Gathered(acc, base, step, n, X) /\ acc[n] = k[1 .. n]
<1> USE DEF Recurs
<1> DEFINE acc == [i \in 0 .. n |-> k[1 .. i]]
           P == {i \in Nat : k[1 .. i] \in X}
<1>1. ASSUME NEW i \in 0 .. n - 1, i \in P PROVE k[1 .. i + 1] = step[i + 1][k[1 .. i]] /\ i + 1 \in P
  <2> DEFINE s == 1 .. i + 1
  <2>1. s \in SUBSET (1 .. n) /\ i + 1 \in s /\ \A y \in s : y <= i + 1
    OBVIOUS
  <2>2. Max(s) \in s /\ \A y \in s : y <= Max(s)
    <3> HIDE DEF s
    <3> QED BY <2>1, MaxNat
  <2>3. Max(s) = i + 1
    <3> HIDE DEF s
    <3>1. Max(s) <= i + 1 /\ i + 1 <= Max(s)
      BY <2>1, <2>2
    <3>2. Max(s) \in 1 .. n
      BY <2>1, <2>2
    <3> QED BY <3>1, <3>2
  <2>4. s \ {i + 1} = 1 .. i
    OBVIOUS
  <2>5. k[s] = step[i + 1][k[1 .. i]] /\ k[1 .. i] \in X
    <3>1. s # {} /\ k[s \ {Max(s)}] \in X
      BY <1>1, <2>1, <2>3, <2>4
    <3> HIDE DEF s
    <3> QED BY <2>1, <2>3, <2>4, <3>1
  <2>6. i + 1 \in 1 .. n /\ i + 1 \in Nat
    OBVIOUS
  <2> QED BY <2>5, <2>6
<1>2. 0 \in P
  <2>1. 1 .. 0 = {}
    OBVIOUS
  <2> QED BY <2>1
<1>3. \A i \in 0 .. n : i \in P
  <2>1. \A i \in 0 .. n - 1 : i \in P => i + 1 \in P
    <3> HIDE DEF P
    <3> QED BY <1>1
  <2> HIDE DEF P
  <2> QED BY <1>2, <2>1, Upwards
<1>4. acc \in [0 .. n -> X]
  BY <1>3
<1>5. acc[0] = base
  <2>1. 1 .. 0 = {} /\ 0 \in 0 .. n
    OBVIOUS
  <2> QED BY <2>1
<1>6. ASSUME NEW i \in 1 .. n PROVE acc[i] = step[i][acc[i - 1]]
  <2>1. i - 1 \in 0 .. n - 1 /\ i - 1 \in P /\ (i - 1) + 1 = i /\ i - 1 \in 0 .. n
    BY <1>3
  <2>2. k[1 .. i] = step[i][k[1 .. i - 1]]
    BY <1>1, <2>1
  <2> QED BY <2>1, <2>2
<1>7. acc[n] = k[1 .. n]
  OBVIOUS
<1> QED BY <1>4, <1>5, <1>6, <1>7 DEF Gathered

(* A function on 1 .. m is a sequence of that length.                      *)
LEMMA Sequenced ==
  ASSUME NEW S, NEW m \in Nat, NEW t \in [1 .. m -> S]
  PROVE  t \in Seq(S) /\ Len(t) = m /\ DOMAIN t = 1 .. m
<1>1. t \in Seq(S)
  BY SeqDef
<1>2. Len(t) \in Nat /\ DOMAIN t = 1 .. Len(t) /\ DOMAIN t = 1 .. m
  BY <1>1, LenProperties
<1>3. \A a, b \in Nat : 1 .. a = 1 .. b => a = b
  <2>1. SUFFICES ASSUME NEW a \in Nat, NEW b \in Nat, 1 .. a = 1 .. b, a < b PROVE FALSE
    OBVIOUS
  <2>2. b \in 1 .. b /\ b \notin 1 .. a
    BY <2>1
  <2> QED BY <2>1, <2>2
<1> QED BY <1>1, <1>2, <1>3

(***************************************************************************)
(* Elements of a finite set by their rank in a strict total order R.       *)
(***************************************************************************)

StrictOrder(R, S) ==
    /\ \A x \in S : <<x, x>> \notin R
    /\ \A x, y, z \in S : (<<x, y>> \in R /\ <<y, z>> \in R) => <<x, z>> \in R
    /\ \A x, y \in S : x = y \/ <<x, y>> \in R \/ <<y, x>> \in R

Below(R, S, x) == {y \in S : <<y, x>> \in R}

(* Ranks are ordered as the elements are.                                  *)
LEMMA RankOrder ==
  ASSUME NEW S, IsFiniteSet(S), NEW R, StrictOrder(R, S), NEW x \in S, NEW y \in S
  PROVE  /\ Cardinality(Below(R, S, x)) \in 0 .. Cardinality(S) - 1
         /\ <<x, y>> \in R <=> Cardinality(Below(R, S, x)) < Cardinality(Below(R, S, y))
<1>0. \A T \in SUBSET S : IsFiniteSet(T) /\ Cardinality(T) \in Nat /\ Cardinality(T) <= Cardinality(S)
  BY FS_Subset, FS_CardinalityType
<1>1. Below(R, S, x) \in SUBSET S /\ Below(R, S, y) \in SUBSET S /\ x \notin Below(R, S, x)
  BY DEF Below, StrictOrder
<1>2. Cardinality(Below(R, S, x)) # Cardinality(S)
  BY <1>1, FS_Subset
<1>3. ASSUME NEW u \in S, NEW w \in S, <<u, w>> \in R
      PROVE  Cardinality(Below(R, S, u)) < Cardinality(Below(R, S, w))
  <2>1. Below(R, S, u) \in SUBSET Below(R, S, w) /\ u \in Below(R, S, w) /\ u \notin Below(R, S, u)
    BY <1>3 DEF Below, StrictOrder
  <2>2. Below(R, S, u) \in SUBSET S /\ Below(R, S, w) \in SUBSET S
    BY DEF Below
  <2>3. /\ IsFiniteSet(Below(R, S, w)) /\ Cardinality(Below(R, S, w)) \in Nat
        /\ Cardinality(Below(R, S, u)) \in Nat
    BY <1>0, <2>2
  <2>4. /\ Cardinality(Below(R, S, u)) <= Cardinality(Below(R, S, w))
        /\ Cardinality(Below(R, S, u)) # Cardinality(Below(R, S, w))
    BY <2>1, <2>3, FS_Subset
  <2> QED BY <2>3, <2>4
<1>4. /\ Cardinality(Below(R, S, x)) \in Nat /\ Cardinality(Below(R, S, y)) \in Nat
      /\ Cardinality(Below(R, S, x)) <= Cardinality(S) /\ Cardinality(S) \in Nat
  BY <1>0, <1>1
<1>5. x = y \/ <<x, y>> \in R \/ <<y, x>> \in R
  BY DEF StrictOrder
<1>6. Cardinality(Below(R, S, x)) \in 0 .. Cardinality(S) - 1
  BY <1>2, <1>4
<1>7. <<x, y>> \in R => Cardinality(Below(R, S, x)) < Cardinality(Below(R, S, y))
  BY <1>3
<1>8. <<y, x>> \in R => Cardinality(Below(R, S, y)) < Cardinality(Below(R, S, x))
  BY <1>3
<1>9. Cardinality(Below(R, S, x)) < Cardinality(Below(R, S, y)) => <<x, y>> \in R
  BY <1>4, <1>5, <1>8
<1> QED BY <1>6, <1>7, <1>9

(* Every rank is taken.                                                    *)
LEMMA Ranked ==
  ASSUME NEW S, IsFiniteSet(S), NEW R, StrictOrder(R, S)
  PROVE  \A i \in 1 .. Cardinality(S) : \E x \in S : Cardinality(Below(R, S, x)) = i - 1
<1> DEFINE n == Cardinality(S)
           T == 0 .. n - 1
           f == [x \in S |-> Cardinality(Below(R, S, x))]
<1>0. n \in Nat
  BY FS_CardinalityType
<1>1. IsFiniteSet(T) /\ Cardinality(T) = n
  <2>1. n - 1 \in Int /\ 0 \in Int /\ (0 > n - 1 => n = 0) /\ (n - 1) - 0 + 1 = n
    BY <1>0
  <2> HIDE DEF n
  <2> QED BY <2>1, FS_Interval
<1>2. f \in [S -> T]
  BY RankOrder
<1>3. \A x, y \in S : f[x] = f[y] => x = y
  <2>1. SUFFICES ASSUME NEW x \in S, NEW y \in S, f[x] = f[y], x # y PROVE FALSE
    OBVIOUS
  <2>2. <<x, y>> \in R \/ <<y, x>> \in R
    BY <2>1 DEF StrictOrder
  <2>3. Cardinality(Below(R, S, x)) = Cardinality(Below(R, S, y)) /\ Cardinality(Below(R, S, x)) \in Int
    <3>1. Cardinality(Below(R, S, x)) \in 0 .. n - 1
      BY RankOrder
    <3> QED BY <2>1, <3>1
  <2> QED BY <2>2, <2>3, RankOrder
<1>4. f \in Injection(S, T)
  <2> HIDE DEF f, T
  <2> QED BY <1>2, <1>3 DEF Injection, IsInjective
<1>5. f \in Surjection(S, T)
  <2> HIDE DEF f, T
  <2> QED BY <1>1, <1>4, FS_Injection
<1>6. \A t \in T : \E x \in S : f[x] = t
  <2> HIDE DEF f, T
  <2> QED BY <1>5 DEF Surjection
<1>7. ASSUME NEW i \in 1 .. n PROVE \E x \in S : Cardinality(Below(R, S, x)) = i - 1
  <2>1. i - 1 \in T
    BY <1>0
  <2>2. PICK x \in S : f[x] = i - 1
    BY <1>6, <2>1
  <2> QED BY <2>2
<1> QED BY <1>7

(* The sequence of the elements in their order.                            *)
IsArranged(t, R, S) ==
    /\ t \in [1 .. Cardinality(S) -> S] /\ t \in Seq(S) /\ Len(t) = Cardinality(S) /\ Cardinality(S) \in Nat
    /\ \A x \in S : \E i \in 1 .. Cardinality(S) : t[i] = x
    /\ \A i, j \in 1 .. Cardinality(S) : i < j <=> <<t[i], t[j]>> \in R

(* Choosing the element of each rank arranges the set.                     *)
LEMMA Arrangement ==
  ASSUME NEW S, IsFiniteSet(S), NEW R, StrictOrder(R, S),
         NEW t, t = [i \in 1 .. Cardinality(S) |-> CHOOSE x \in S : Cardinality(Below(R, S, x)) = i - 1]
  PROVE  IsArranged(t, R, S)
<1> DEFINE n == Cardinality(S)
<1>0. n \in Nat
  BY FS_CardinalityType
<1>1. \A i \in 1 .. n : t[i] \in S /\ Cardinality(Below(R, S, t[i])) = i - 1
  <2>1. SUFFICES ASSUME NEW i \in 1 .. n PROVE t[i] \in S /\ Cardinality(Below(R, S, t[i])) = i - 1
    OBVIOUS
  <2>2. t[i] = CHOOSE x \in S : Cardinality(Below(R, S, x)) = i - 1
    OBVIOUS
  <2> QED BY <2>2, Ranked
<1>2. t \in [1 .. n -> S]
  BY <1>1
<1>3. t \in Seq(S) /\ Len(t) = n
  <2> HIDE DEF n
  <2> QED BY <1>0, <1>2, Sequenced
<1>4. ASSUME NEW x \in S PROVE \E i \in 1 .. n : t[i] = x
  <2>1. Cardinality(Below(R, S, x)) \in 0 .. n - 1
    BY RankOrder
  <2> DEFINE i == Cardinality(Below(R, S, x)) + 1
  <2>2. i \in 1 .. n /\ i - 1 = Cardinality(Below(R, S, x))
    BY <1>0, <2>1
  <2>3. t[i] \in S /\ Cardinality(Below(R, S, t[i])) = Cardinality(Below(R, S, x))
    <3> HIDE DEF i
    <3> QED BY <1>1, <2>2
  <2> HIDE DEF i
  <2>4. t[i] = x
    <3>1. ~(<<t[i], x>> \in R) /\ ~(<<x, t[i]>> \in R)
      <4>1. /\ <<t[i], x>> \in R => Cardinality(Below(R, S, t[i])) < Cardinality(Below(R, S, x))
            /\ <<x, t[i]>> \in R => Cardinality(Below(R, S, x)) < Cardinality(Below(R, S, t[i]))
        BY <2>3, RankOrder
      <4>2. \A u, w \in Int : u = w => ~(u < w) /\ ~(w < u)
        OBVIOUS
      <4> QED BY <2>1, <2>3, <4>1, <4>2
    <3> QED BY <2>3, <3>1 DEF StrictOrder
  <2> QED BY <2>2, <2>4
<1>5. ASSUME NEW i \in 1 .. n, NEW j \in 1 .. n PROVE i < j <=> <<t[i], t[j]>> \in R
  <2>1. t[i] \in S /\ t[j] \in S /\ Cardinality(Below(R, S, t[i])) = i - 1 /\ Cardinality(Below(R, S, t[j])) = j - 1
    BY <1>1
  <2>2. <<t[i], t[j]>> \in R <=> i - 1 < j - 1
    BY <2>1, RankOrder
  <2> QED BY <2>2
<1> QED BY <1>0, <1>2, <1>3, <1>4, <1>5 DEF IsArranged
=============================================================================
