---------------------------- MODULE SumTheorems ----------------------------
(***************************************************************************)
(* What the stores' totals are: the facts about SumFunctionOnSet that the  *)
(* proofs about budgets, quotas and ceilings rest on.  The sum of f over a *)
(* finite set does not depend on the order in which the fold takes the     *)
(* elements, and follows what a step changes: one element added, removed   *)
(* or rewritten.  At the end, what rounds of a step that adds elements     *)
(* reach.                                                                  *)
(*                                                                         *)
(* The sums are defined by recursion, and the induction principles of the  *)
(* library take the property to prove as an operator.  Everything below    *)
(* uses a least counterexample instead: a set of sets, of which one member *)
(* has no other member of it as a subset.                                  *)
(***************************************************************************)
EXTENDS Sequences, FiniteSetsExt, FiniteSetTheorems, TLAPS

(* Of a nonempty family of subsets of a finite set, one is minimal. *)
LEMMA MinimalSubset ==
    ASSUME NEW S, IsFiniteSet(S), NEW Family \in SUBSET SUBSET S, Family # {}
    PROVE  \E T \in Family : \A U \in SUBSET T : U # T => U \notin Family
<1>1. IsWellFoundedOn(StrictSubsetOrdering(S), SUBSET S)
  BY FS_StrictSubsetOrderingWellFounded, FS_FiniteSubsetsOfFinite
<1>2. PICK T \in Family : \A U \in Family : ~ (<<U, T>> \in StrictSubsetOrdering(S))
  BY <1>1, WFMin
<1>3. ASSUME NEW U \in SUBSET T, U # T, U \in Family PROVE FALSE
  <2>1. <<U, T>> \in StrictSubsetOrdering(S)
    BY <1>3 DEF StrictSubsetOrdering
  <2> QED BY <1>2, <1>3, <2>1
<1> QED BY <1>3

-----------------------------------------------------------------------------
(* The element the fold takes next, one step of it, and the table of all partial sums. *)
FoldPick(T) == CHOOSE x \in T : TRUE
FoldStep(f, g, T) == IF T = {} THEN 0 ELSE f[FoldPick(T)] + g[T \ {FoldPick(T)}]
IsSumTable(f, g, S) == g = [T \in SUBSET S |-> FoldStep(f, g, T)]

LEMMA FoldPickIn == ASSUME NEW T, T # {} PROVE FoldPick(T) \in T
  BY DEF FoldPick

LEMMA SumIsTable ==
    ASSUME NEW f, NEW S
    PROVE  SumFunctionOnSet(f, S) = (CHOOSE g : IsSumTable(f, g, S))[S]
  BY Zenon DEF SumFunctionOnSet, FoldFunctionOnSet, MapThenFoldSet, IsSumTable, FoldStep, FoldPick

(* Two tables agree where both are defined. *)
LEMMA TablesAgree ==
    ASSUME NEW S, IsFiniteSet(S), NEW R, S \subseteq R, NEW f, NEW g, NEW h,
           IsSumTable(f, g, S), IsSumTable(f, h, R)
    PROVE  \A T \in SUBSET S : g[T] = h[T]
<1> DEFINE Bad == {T \in SUBSET S : g[T] # h[T]}
<1> SUFFICES ASSUME Bad # {} PROVE FALSE
  OBVIOUS
<1>1. PICK T \in Bad : \A U \in SUBSET T : U # T => U \notin Bad
  <2>1. Bad \in SUBSET SUBSET S
    OBVIOUS
  <2> HIDE DEF Bad
  <2> QED BY <2>1, MinimalSubset
<1>2. T \in SUBSET S /\ T \in SUBSET R /\ g[T] # h[T]
  OBVIOUS
<1> HIDE DEF Bad
<1>3. g[T] = FoldStep(f, g, T) /\ h[T] = FoldStep(f, h, T)
  BY <1>2 DEF IsSumTable
<1>4. T # {}
  BY <1>2, <1>3 DEF FoldStep
<1>5. T \ {FoldPick(T)} \in SUBSET T /\ T \ {FoldPick(T)} # T /\ T \ {FoldPick(T)} \in SUBSET S
  BY <1>2, <1>4, FoldPickIn
<1>6. g[T \ {FoldPick(T)}] = h[T \ {FoldPick(T)}]
  BY <1>1, <1>5 DEF Bad
<1> QED BY <1>2, <1>3, <1>4, <1>6 DEF FoldStep

(* A table for a set holds one for each of its subsets. *)
LEMMA TableBelow ==
    ASSUME NEW S, NEW R \in SUBSET S, NEW f, NEW g, IsSumTable(f, g, S)
    PROVE  IsSumTable(f, [T \in SUBSET R |-> g[T]], R)
<1> DEFINE h == [T \in SUBSET R |-> g[T]]
<1> SUFFICES ASSUME NEW T \in SUBSET R PROVE g[T] = FoldStep(f, h, T)
  BY DEF IsSumTable
<1>1. g[T] = FoldStep(f, g, T)
  BY DEF IsSumTable
<1>2. h[T \ {FoldPick(T)}] = g[T \ {FoldPick(T)}]
  OBVIOUS
<1> QED BY <1>1, <1>2 DEF FoldStep

(* Every finite set has its table. *)
LEMMA TableExists ==
    ASSUME NEW S, IsFiniteSet(S), NEW f
    PROVE  \E g : IsSumTable(f, g, S)
<1> DEFINE Bad == {T \in SUBSET S : ~ \E g : IsSumTable(f, g, T)}
<1> SUFFICES ASSUME Bad # {} PROVE FALSE
  OBVIOUS
<1>1. PICK T \in Bad : \A U \in SUBSET T : U # T => U \notin Bad
  <2>1. Bad \in SUBSET SUBSET S
    OBVIOUS
  <2> HIDE DEF Bad
  <2> QED BY <2>1, MinimalSubset
<1>2. T \in SUBSET S /\ IsFiniteSet(T)
  BY FS_Subset
<1> DEFINE table(U) == CHOOSE g : IsSumTable(f, g, U)
           rest == T \ {FoldPick(T)}
           g == [U \in SUBSET T |->
                   IF U # T THEN table(U)[U]
                   ELSE IF T = {} THEN 0 ELSE f[FoldPick(T)] + table(rest)[rest]]
<1>3. ASSUME NEW U \in SUBSET T, U # T PROVE IsSumTable(f, table(U), U)
  <2>1. \E h : IsSumTable(f, h, U)
    BY <1>1, <1>2, <1>3
  <2> QED BY <2>1
<1>4. T # {} => rest \in SUBSET T /\ rest # T
  BY FoldPickIn
<1>5. ASSUME NEW U \in SUBSET T PROVE g[U] = FoldStep(f, g, U)
  <2>1. CASE U = T
    BY <1>4, <2>1 DEF FoldStep
  <2>2. CASE U # T /\ U = {}
    <3>1. IsSumTable(f, table(U), U)
      BY <1>3, <2>2
    <3> HIDE DEF table
    <3>2. table(U)[U] = FoldStep(f, table(U), U)
      BY <3>1 DEF IsSumTable
    <3> QED BY <2>2, <3>2 DEF FoldStep
  <2>3. CASE U # T /\ U # {}
    <3> DEFINE W == U \ {FoldPick(U)}
    <3>1. W \in SUBSET U /\ W \in SUBSET T /\ W # T
      BY <2>3
    <3>2. IsSumTable(f, table(U), U) /\ IsSumTable(f, table(W), W) /\ IsFiniteSet(W)
      BY <1>2, <1>3, <2>3, <3>1, FS_Subset
    <3> HIDE DEF table
    <3>3. table(U)[U] = FoldStep(f, table(U), U)
      BY <3>2 DEF IsSumTable
    <3>4. table(U)[W] = table(W)[W]
      BY <3>1, <3>2, TablesAgree
    <3> QED BY <2>3, <3>1, <3>3, <3>4 DEF FoldStep
  <2> QED BY <2>1, <2>2, <2>3
<1>6. IsSumTable(f, g, T)
  BY <1>5 DEF IsSumTable
<1> QED BY <1>6

-----------------------------------------------------------------------------
LEMMA SumEmpty == ASSUME NEW f PROVE SumFunctionOnSet(f, {}) = 0
<1> DEFINE g == CHOOSE g : IsSumTable(f, g, {})
<1>1. IsSumTable(f, g, {})
  BY TableExists, FS_EmptySet
<1>2. g[{}] = FoldStep(f, g, {})
  BY <1>1 DEF IsSumTable
<1> QED BY <1>2, SumIsTable DEF FoldStep

LEMMA SumPicked ==
    ASSUME NEW S, IsFiniteSet(S), S # {}, NEW f
    PROVE  SumFunctionOnSet(f, S) = f[FoldPick(S)] + SumFunctionOnSet(f, S \ {FoldPick(S)})
<1> DEFINE table(U) == CHOOSE g : IsSumTable(f, g, U)
           rest == S \ {FoldPick(S)}
<1>1. IsFiniteSet(rest) /\ rest \subseteq S
  BY FS_Subset
<1>2. IsSumTable(f, table(S), S) /\ IsSumTable(f, table(rest), rest)
  BY <1>1, TableExists
<1>3. SumFunctionOnSet(f, S) = table(S)[S] /\ SumFunctionOnSet(f, rest) = table(rest)[rest]
  BY SumIsTable
<1> HIDE DEF table
<1>4. table(S)[S] = FoldStep(f, table(S), S)
  BY <1>2 DEF IsSumTable
<1>5. table(S)[rest] = table(rest)[rest]
  BY <1>1, <1>2, TablesAgree
<1> QED BY <1>3, <1>4, <1>5 DEF FoldStep

(* A sum of integers is one. *)
LEMMA SumInt ==
    ASSUME NEW S, IsFiniteSet(S), NEW f, \A x \in S : f[x] \in Int
    PROVE  SumFunctionOnSet(f, S) \in Int
<1> DEFINE Bad == {T \in SUBSET S : SumFunctionOnSet(f, T) \notin Int}
<1> SUFFICES ASSUME Bad # {} PROVE FALSE
  OBVIOUS
<1>1. PICK T \in Bad : \A U \in SUBSET T : U # T => U \notin Bad
  <2>1. Bad \in SUBSET SUBSET S
    OBVIOUS
  <2> HIDE DEF Bad
  <2> QED BY <2>1, MinimalSubset
<1>2. T \in SUBSET S /\ IsFiniteSet(T) /\ SumFunctionOnSet(f, T) \notin Int
  BY FS_Subset
<1>3. T # {}
  BY <1>2, SumEmpty
<1>4. FoldPick(T) \in T /\ T \ {FoldPick(T)} \in SUBSET S
  BY <1>2, <1>3, FoldPickIn
<1>5. SumFunctionOnSet(f, T \ {FoldPick(T)}) \in Int
  BY <1>1, <1>4
<1> HIDE DEF Bad
<1>6. f[FoldPick(T)] \in Int
  BY <1>2, <1>4
<1>7. SumFunctionOnSet(f, T) = f[FoldPick(T)] + SumFunctionOnSet(f, T \ {FoldPick(T)})
  BY <1>2, <1>3, SumPicked
<1> QED BY <1>2, <1>5, <1>6, <1>7

(* The element that is taken first does not matter. *)
LEMMA SumRemove ==
    ASSUME NEW S, IsFiniteSet(S), NEW f, \A x \in S : f[x] \in Int, NEW x \in S
    PROVE  SumFunctionOnSet(f, S) = f[x] + SumFunctionOnSet(f, S \ {x})
<1> DEFINE Holds(T, y) == SumFunctionOnSet(f, T) = f[y] + SumFunctionOnSet(f, T \ {y})
           Bad == {T \in SUBSET S : \E y \in T : ~Holds(T, y)}
<1> SUFFICES ASSUME Bad # {} PROVE FALSE
  OBVIOUS
<1>1. PICK T \in Bad : \A U \in SUBSET T : U # T => U \notin Bad
  <2>1. Bad \in SUBSET SUBSET S
    OBVIOUS
  <2> HIDE DEF Bad
  <2> QED BY <2>1, MinimalSubset
<1>2. T \in SUBSET S /\ IsFiniteSet(T)
  BY FS_Subset
<1>3. PICK y \in T : ~Holds(T, y)
  OBVIOUS
<1> DEFINE z == FoldPick(T)
<1>4. z \in T /\ Holds(T, z)
  BY <1>2, <1>3, FoldPickIn, SumPicked
<1>5. y # z
  BY <1>3, <1>4
<1>6. Holds(T \ {z}, y) /\ Holds(T \ {y}, z)
  <2>1. /\ T \ {z} \in SUBSET T /\ T \ {z} # T /\ y \in T \ {z} /\ T \ {z} \in SUBSET S
        /\ T \ {y} \in SUBSET T /\ T \ {y} # T /\ z \in T \ {y} /\ T \ {y} \in SUBSET S
    BY <1>2, <1>3, <1>4, <1>5
  <2>2. T \ {z} \notin Bad /\ T \ {y} \notin Bad
    BY <1>1, <2>1
  <2> QED BY <2>1, <2>2
<1>7. (T \ {z}) \ {y} = (T \ {y}) \ {z}
  OBVIOUS
<1>8. f[y] \in Int /\ f[z] \in Int /\ SumFunctionOnSet(f, (T \ {y}) \ {z}) \in Int
  <2>1. IsFiniteSet((T \ {y}) \ {z}) /\ (T \ {y}) \ {z} \in SUBSET S
    BY <1>2, FS_Subset
  <2> QED BY <1>2, <1>3, <1>4, <2>1, SumInt
<1> HIDE DEF z
<1>9. SumFunctionOnSet(f, T) = f[y] + SumFunctionOnSet(f, T \ {y})
  BY <1>4, <1>6, <1>7, <1>8
<1> QED BY <1>3, <1>9

(* Adding an element. *)
LEMMA SumAdd ==
    ASSUME NEW S, IsFiniteSet(S), NEW f, NEW x, x \notin S,
           f[x] \in Int, \A y \in S : f[y] \in Int
    PROVE  SumFunctionOnSet(f, S \union {x}) = f[x] + SumFunctionOnSet(f, S)
<1>1. IsFiniteSet(S \union {x}) /\ (S \union {x}) \ {x} = S
  BY FS_AddElement
<1> QED BY <1>1, SumRemove

(* A sum depends on the values at the set only. *)
LEMMA SumSame ==
    ASSUME NEW S, IsFiniteSet(S), NEW f, NEW g, \A x \in S : f[x] = g[x]
    PROVE  SumFunctionOnSet(f, S) = SumFunctionOnSet(g, S)
<1> DEFINE Bad == {T \in SUBSET S : SumFunctionOnSet(f, T) # SumFunctionOnSet(g, T)}
<1> SUFFICES ASSUME Bad # {} PROVE FALSE
  OBVIOUS
<1>1. PICK T \in Bad : \A U \in SUBSET T : U # T => U \notin Bad
  <2>1. Bad \in SUBSET SUBSET S
    OBVIOUS
  <2> HIDE DEF Bad
  <2> QED BY <2>1, MinimalSubset
<1>2. T \in SUBSET S /\ IsFiniteSet(T) /\ SumFunctionOnSet(f, T) # SumFunctionOnSet(g, T)
  BY FS_Subset
<1>3. T # {}
  BY <1>2, SumEmpty
<1>4. FoldPick(T) \in T /\ T \ {FoldPick(T)} \in SUBSET S
  BY <1>2, <1>3, FoldPickIn
<1>5. SumFunctionOnSet(f, T \ {FoldPick(T)}) = SumFunctionOnSet(g, T \ {FoldPick(T)})
  BY <1>1, <1>4
<1> QED BY <1>2, <1>3, <1>4, <1>5, SumPicked

(* A sum with larger values is larger. *)
LEMMA SumMonotone ==
    ASSUME NEW S, IsFiniteSet(S), NEW f, NEW g,
           \A x \in S : f[x] \in Int /\ g[x] \in Int /\ f[x] <= g[x]
    PROVE  SumFunctionOnSet(f, S) <= SumFunctionOnSet(g, S)
<1> DEFINE Bad == {T \in SUBSET S : ~(SumFunctionOnSet(f, T) <= SumFunctionOnSet(g, T))}
<1> SUFFICES ASSUME Bad # {} PROVE FALSE
  OBVIOUS
<1>1. PICK T \in Bad : \A U \in SUBSET T : U # T => U \notin Bad
  <2>1. Bad \in SUBSET SUBSET S
    OBVIOUS
  <2> HIDE DEF Bad
  <2> QED BY <2>1, MinimalSubset
<1>2. T \in SUBSET S /\ IsFiniteSet(T) /\ ~(SumFunctionOnSet(f, T) <= SumFunctionOnSet(g, T))
  BY FS_Subset
<1>3. T # {}
  BY <1>2, SumEmpty
<1>4. FoldPick(T) \in T /\ T \ {FoldPick(T)} \in SUBSET S /\ IsFiniteSet(T \ {FoldPick(T)})
  BY <1>2, <1>3, FoldPickIn, FS_Subset
<1>5. SumFunctionOnSet(f, T \ {FoldPick(T)}) <= SumFunctionOnSet(g, T \ {FoldPick(T)})
  BY <1>1, <1>4
<1>6. SumFunctionOnSet(f, T \ {FoldPick(T)}) \in Int /\ SumFunctionOnSet(g, T \ {FoldPick(T)}) \in Int
  BY <1>4, SumInt
<1>7. f[FoldPick(T)] \in Int /\ g[FoldPick(T)] \in Int /\ f[FoldPick(T)] <= g[FoldPick(T)]
  BY <1>2, <1>4
<1>8. /\ SumFunctionOnSet(f, T) = f[FoldPick(T)] + SumFunctionOnSet(f, T \ {FoldPick(T)})
      /\ SumFunctionOnSet(g, T) = g[FoldPick(T)] + SumFunctionOnSet(g, T \ {FoldPick(T)})
  BY <1>2, <1>3, SumPicked
<1> HIDE DEF Bad
<1> QED BY <1>2, <1>5, <1>6, <1>7, <1>8

(* Rewriting one element changes the sum by the difference. *)
LEMMA SumRewrite ==
    ASSUME NEW S, IsFiniteSet(S), NEW f, NEW g, NEW x \in S,
           \A y \in S : f[y] \in Int, g[x] \in Int, \A y \in S \ {x} : g[y] = f[y]
    PROVE  SumFunctionOnSet(g, S) = SumFunctionOnSet(f, S) - f[x] + g[x]
<1>1. IsFiniteSet(S \ {x}) /\ \A y \in S : g[y] \in Int
  BY FS_Subset
<1>2. SumFunctionOnSet(f, S \ {x}) = SumFunctionOnSet(g, S \ {x})
  BY <1>1, SumSame
<1>3. SumFunctionOnSet(f, S \ {x}) \in Int
  BY <1>1, SumInt
<1>4. /\ SumFunctionOnSet(f, S) = f[x] + SumFunctionOnSet(f, S \ {x})
      /\ SumFunctionOnSet(g, S) = g[x] + SumFunctionOnSet(g, S \ {x})
  BY <1>1, SumRemove
<1> QED BY <1>2, <1>3, <1>4

LEMMA SumZero ==
    ASSUME NEW S, IsFiniteSet(S), NEW f, \A x \in S : f[x] = 0
    PROVE  SumFunctionOnSet(f, S) = 0
<1> DEFINE Bad == {T \in SUBSET S : SumFunctionOnSet(f, T) # 0}
<1> SUFFICES ASSUME Bad # {} PROVE FALSE
  OBVIOUS
<1>1. PICK T \in Bad : \A U \in SUBSET T : U # T => U \notin Bad
  <2>1. Bad \in SUBSET SUBSET S
    OBVIOUS
  <2> HIDE DEF Bad
  <2> QED BY <2>1, MinimalSubset
<1>2. T \in SUBSET S /\ IsFiniteSet(T) /\ SumFunctionOnSet(f, T) # 0
  BY FS_Subset
<1>3. T # {}
  BY <1>2, SumEmpty
<1>4. FoldPick(T) \in T /\ T \ {FoldPick(T)} \in SUBSET S
  BY <1>2, <1>3, FoldPickIn
<1>5. SumFunctionOnSet(f, T \ {FoldPick(T)}) = 0
  BY <1>1, <1>4
<1> QED BY <1>2, <1>3, <1>4, <1>5, SumPicked

(* Natural numbers add up to one, and more of them to no less. *)
LEMMA SumNat ==
    ASSUME NEW S, IsFiniteSet(S), NEW f, \A x \in S : f[x] \in Nat
    PROVE  SumFunctionOnSet(f, S) \in Nat
<1> DEFINE zero == [x \in S |-> 0]
<1>1. SumFunctionOnSet(zero, S) = 0
  BY SumZero
<1>2. SumFunctionOnSet(zero, S) <= SumFunctionOnSet(f, S)
  BY SumMonotone
<1> QED BY <1>1, <1>2, SumInt

(* Two sets without common elements. *)
LEMMA SumUnion ==
    ASSUME NEW S, IsFiniteSet(S), NEW R, IsFiniteSet(R), S \intersect R = {}, NEW f,
           \A x \in S \union R : f[x] \in Int
    PROVE  SumFunctionOnSet(f, S \union R) = SumFunctionOnSet(f, S) + SumFunctionOnSet(f, R)
<1> DEFINE Holds(T) == SumFunctionOnSet(f, S \union T)
                         = SumFunctionOnSet(f, S) + SumFunctionOnSet(f, T)
           Bad == {T \in SUBSET R : ~Holds(T)}
<1> SUFFICES ASSUME Bad # {} PROVE FALSE
  OBVIOUS
<1>1. PICK T \in Bad : \A U \in SUBSET T : U # T => U \notin Bad
  <2>1. Bad \in SUBSET SUBSET R
    OBVIOUS
  <2> HIDE DEF Bad
  <2> QED BY <2>1, MinimalSubset
<1>2. T \in SUBSET R /\ IsFiniteSet(T) /\ ~Holds(T)
  BY FS_Subset
<1>3. SumFunctionOnSet(f, S) \in Int
  BY SumInt
<1>4. T # {}
  BY <1>2, <1>3, SumEmpty
<1> DEFINE x == FoldPick(T)
           rest == T \ {x}
<1>5. x \in T /\ x \notin S /\ rest \in SUBSET R /\ rest # T /\ rest \in SUBSET T /\ IsFiniteSet(rest)
  BY <1>2, <1>4, FoldPickIn, FS_Subset
<1>6. Holds(rest)
  BY <1>1, <1>5
<1>7. SumFunctionOnSet(f, T) = f[x] + SumFunctionOnSet(f, rest)
  BY <1>2, <1>5, SumRemove
<1>8. SumFunctionOnSet(f, S \union T) = f[x] + SumFunctionOnSet(f, S \union rest)
  <2>1. IsFiniteSet(S \union T) /\ (S \union T) \ {x} = S \union rest /\ x \in S \union T
    BY <1>2, <1>5, FS_Union
  <2>2. \A y \in S \union T : f[y] \in Int
    BY <1>2
  <2> HIDE DEF x, rest
  <2>3. SumFunctionOnSet(f, S \union T) = f[x] + SumFunctionOnSet(f, (S \union T) \ {x})
    BY <2>1, <2>2, SumRemove
  <2> QED BY <2>1, <2>3
<1>9. f[x] \in Int /\ SumFunctionOnSet(f, rest) \in Int
  BY <1>2, <1>5, SumInt
<1> HIDE DEF x, rest
<1> QED BY <1>2, <1>3, <1>6, <1>7, <1>8, <1>9

LEMMA SumSubset ==
    ASSUME NEW S, IsFiniteSet(S), NEW R \in SUBSET S, NEW f, \A x \in S : f[x] \in Nat
    PROVE  SumFunctionOnSet(f, R) <= SumFunctionOnSet(f, S)
<1>1. IsFiniteSet(R) /\ IsFiniteSet(S \ R) /\ R \intersect (S \ R) = {} /\ R \union (S \ R) = S
  BY FS_Subset
<1>2. SumFunctionOnSet(f, R) \in Nat /\ SumFunctionOnSet(f, S \ R) \in Nat
  BY <1>1, SumNat
<1>3. SumFunctionOnSet(f, R \union (S \ R)) = SumFunctionOnSet(f, R) + SumFunctionOnSet(f, S \ R)
  BY <1>1, SumUnion
<1>4. SumFunctionOnSet(f, S) = SumFunctionOnSet(f, R) + SumFunctionOnSet(f, S \ R)
  BY <1>1, <1>3
<1> QED BY <1>2, <1>4

(* The sum of two functions. *)
LEMMA SumPlus ==
    ASSUME NEW S, IsFiniteSet(S), NEW f, NEW g, NEW h,
           \A x \in S : f[x] \in Int /\ g[x] \in Int /\ h[x] = f[x] + g[x]
    PROVE  SumFunctionOnSet(h, S) = SumFunctionOnSet(f, S) + SumFunctionOnSet(g, S)
<1> DEFINE Holds(T) == SumFunctionOnSet(h, T) = SumFunctionOnSet(f, T) + SumFunctionOnSet(g, T)
           Bad == {T \in SUBSET S : ~Holds(T)}
<1> SUFFICES ASSUME Bad # {} PROVE FALSE
  OBVIOUS
<1>1. PICK T \in Bad : \A U \in SUBSET T : U # T => U \notin Bad
  <2>1. Bad \in SUBSET SUBSET S
    OBVIOUS
  <2> HIDE DEF Bad
  <2> QED BY <2>1, MinimalSubset
<1>2. T \in SUBSET S /\ IsFiniteSet(T) /\ ~Holds(T)
  BY FS_Subset
<1>3. T # {}
  <2>1. Holds({})
    BY SumEmpty
  <2> QED BY <1>2, <2>1
<1> DEFINE x == FoldPick(T)
           rest == T \ {x}
<1>4. x \in T /\ x \in S /\ rest \in SUBSET S /\ IsFiniteSet(rest)
  BY <1>2, <1>3, FoldPickIn, FS_Subset
<1>5. Holds(rest)
  BY <1>1, <1>4
<1>6. /\ SumFunctionOnSet(f, T) = f[x] + SumFunctionOnSet(f, rest)
      /\ SumFunctionOnSet(g, T) = g[x] + SumFunctionOnSet(g, rest)
      /\ SumFunctionOnSet(h, T) = h[x] + SumFunctionOnSet(h, rest)
  BY <1>2, <1>3, SumPicked
<1>7. /\ f[x] \in Int /\ g[x] \in Int /\ h[x] = f[x] + g[x]
      /\ SumFunctionOnSet(f, rest) \in Int /\ SumFunctionOnSet(g, rest) \in Int
  BY <1>4, SumInt
<1> HIDE DEF x, rest
<1> QED BY <1>2, <1>5, <1>6, <1>7

(* Elements grouped by a key: the sum of the groups' sums is the sum. *)
LEMMA SumByKey ==
    ASSUME NEW S, IsFiniteSet(S), NEW K, IsFiniteSet(K),
           NEW key, \A x \in S : key[x] \in K, NEW f, \A x \in S : f[x] \in Int,
           NEW part, \A k \in K : part[k] \subseteq S /\ \A x \in S : x \in part[k] <=> key[x] = k,
           NEW g, \A k \in K : g[k] = SumFunctionOnSet(f, part[k])
    PROVE  SumFunctionOnSet(g, K) = SumFunctionOnSet(f, S)
<1> DEFINE Keyed(T) == {x \in S : key[x] \in T}
           Bad == {T \in SUBSET K : SumFunctionOnSet(g, T) # SumFunctionOnSet(f, Keyed(T))}
<1>0. Bad = {}
  <2> SUFFICES ASSUME Bad # {} PROVE FALSE
    OBVIOUS
  <2>1. PICK T \in Bad : \A U \in SUBSET T : U # T => U \notin Bad
    <3>1. Bad \in SUBSET SUBSET K
      OBVIOUS
    <3> HIDE DEF Bad
    <3> QED BY <3>1, MinimalSubset
  <2>2. T \in SUBSET K /\ IsFiniteSet(T) /\ SumFunctionOnSet(g, T) # SumFunctionOnSet(f, Keyed(T))
    BY <2>1, FS_Subset
  <2>3. T # {}
    <3>1. CASE T = {}
      <4>1. Keyed(T) = {}
        BY <3>1
      <4> QED BY <2>2, <3>1, <4>1, SumEmpty
    <3> QED BY <3>1
  <2> DEFINE k == FoldPick(T)
             rest == T \ {k}
             group == part[k]
  <2>4. k \in T /\ k \in K /\ rest \in SUBSET K /\ rest # T /\ rest \in SUBSET T
    BY <2>2, <2>3, FoldPickIn
  <2>5. SumFunctionOnSet(g, rest) = SumFunctionOnSet(f, Keyed(rest))
    BY <2>1, <2>4
  <2>6. SumFunctionOnSet(g, T) = g[k] + SumFunctionOnSet(g, rest)
    BY <2>2, <2>3, SumPicked
  <2>7. SumFunctionOnSet(f, Keyed(T)) = SumFunctionOnSet(f, group) + SumFunctionOnSet(f, Keyed(rest))
    <3> DEFINE others == Keyed(rest)
    <3>1. /\ group \in SUBSET S /\ others \in SUBSET S
          /\ group \intersect others = {} /\ group \union others = Keyed(T)
      BY <2>4
    <3> HIDE DEF group, others
    <3>2. IsFiniteSet(group) /\ IsFiniteSet(others) /\ \A x \in group \union others : f[x] \in Int
      BY <3>1, FS_Subset
    <3>3. SumFunctionOnSet(f, group \union others)
             = SumFunctionOnSet(f, group) + SumFunctionOnSet(f, others)
      BY <3>1, <3>2, SumUnion
    <3> HIDE DEF Keyed
    <3> QED BY <3>1, <3>3 DEF others
  <2>8. g[k] = SumFunctionOnSet(f, group)
    BY <2>4
  <2> HIDE DEF k, rest, group, Keyed
  <2> QED BY <2>2, <2>5, <2>6, <2>7, <2>8
<1>1. Keyed(K) = S
  OBVIOUS
<1>2. SumFunctionOnSet(g, K) = SumFunctionOnSet(f, Keyed(K))
  BY <1>0
<1> QED BY <1>1, <1>2

(* The least of some natural numbers. *)
LEMMA MinOfNat ==
    ASSUME NEW S \in SUBSET Nat, S # {}
    PROVE  Min(S) \in S /\ \A y \in S : Min(S) <= y
<1>1. PICK n \in S : TRUE
  OBVIOUS
<1> DEFINE Family == {T \in SUBSET (0 .. n) : \E m \in S : T = 0 .. m}
<1>2. PICK T \in Family : \A U \in SUBSET T : U # T => U \notin Family
  <2>1. 0 .. n \in Family
    BY <1>1
  <2>2. IsFiniteSet(0 .. n) /\ Family \in SUBSET SUBSET (0 .. n) /\ Family # {}
    <3>1. n \in Int /\ IsFiniteSet(0 .. n)
      BY <1>1, FS_Interval
    <3>2. Family \in SUBSET SUBSET (0 .. n) /\ Family # {}
      BY <2>1
    <3> QED BY <3>1, <3>2
  <2> HIDE DEF Family
  <2> QED BY <2>2, MinimalSubset
<1>3. PICK m \in S : T = 0 .. m
  BY <1>2
<1>4. \A y \in S : m <= y
  <2> SUFFICES ASSUME NEW y \in S, y < m PROVE FALSE
    OBVIOUS
  <2>1. 0 .. y \in SUBSET T /\ m \in T /\ m \notin 0 .. y
    BY <1>3
  <2>2. 0 .. y \in Family
    BY <1>2, <2>1
  <2> QED BY <1>2, <2>1, <2>2
<1>5. \E x \in S : \A y \in S : x <= y
  BY <1>4
<1> QED BY <1>5 DEF Min

LEMMA MaxOfBounded ==
    ASSUME NEW n \in Nat, NEW S \in SUBSET (1 .. n), S # {}
    PROVE  Max(S) \in S /\ \A y \in S : y <= Max(S)
<1> DEFINE R == {n - y : y \in S}
<1>1. R \in SUBSET Nat /\ R # {}
  OBVIOUS
<1> HIDE DEF R
<1>2. Min(R) \in R /\ \A z \in R : Min(R) <= z
  BY <1>1, MinOfNat
<1>3. PICK m \in S : Min(R) = n - m
  BY <1>2 DEF R
<1>4. \A y \in S : m >= y
  <2> SUFFICES ASSUME NEW y \in S PROVE m >= y
    OBVIOUS
  <2>1. n - y \in R
    BY DEF R
  <2>2. n - m <= n - y
    BY <1>2, <1>3, <2>1
  <2> QED BY <2>2
<1>5. Max(S) \in S /\ \A y \in S : Max(S) >= y
  BY <1>4 DEF Max
<1> QED BY <1>5

(* A sequence with one more element. *)
LEMMA Appended ==
    ASSUME NEW s, \E S : s \in Seq(S), NEW x
    PROVE  /\ \E S : Append(s, x) \in Seq(S)
           /\ Len(s) \in Nat /\ DOMAIN s = 1 .. Len(s)
           /\ Len(Append(s, x)) = Len(s) + 1 /\ DOMAIN Append(s, x) = 1 .. Len(s) + 1
           /\ Append(s, x)[Len(s) + 1] = x
           /\ \A e \in DOMAIN s : Append(s, x)[e] = s[e]
<1>1. PICK S : s \in Seq(S)
  OBVIOUS
<1>2. s \in Seq(S \union {x})
  BY <1>1
<1>3. Append(s, x) \in Seq(S \union {x})
  BY <1>2
<1> QED BY <1>2, <1>3

-----------------------------------------------------------------------------
(***************************************************************************)
(* A set that a step function grows from a start, round by round.          *)
(***************************************************************************)
Rounds(f, U, D, G, k) ==
    f \in [0 .. k -> SUBSET U] /\ f[0] = D /\ \A n \in 1 .. k : f[n] = G[f[n - 1]]

LEMMA RoundsExist ==
    ASSUME NEW U, NEW D \in SUBSET U, NEW G \in [SUBSET U -> SUBSET U], NEW K \in Nat
    PROVE  \E f : Rounds(f, U, D, G, K)
<1> DEFINE Bad == {k \in 0 .. K : ~\E f : Rounds(f, U, D, G, k)}
<1> SUFFICES ASSUME Bad # {} PROVE FALSE
  OBVIOUS
<1>1. Bad \in SUBSET Nat
  OBVIOUS
<1>2. PICK m \in Bad : \A k \in Bad : m <= k
  <2> HIDE DEF Bad
  <2> QED BY <1>1, MinOfNat
<1>3. m \in 0 .. K /\ ~\E f : Rounds(f, U, D, G, m)
  BY <1>2
<1>4. m # 0
  <2>1. Rounds([n \in 0 .. 0 |-> D], U, D, G, 0)
    BY DEF Rounds
  <2> QED BY <1>3, <2>1
<1>5. m - 1 \in 0 .. K /\ m - 1 \notin Bad /\ m \in Nat
  BY <1>2, <1>3, <1>4
<1>6. PICK f : Rounds(f, U, D, G, m - 1)
  BY <1>5
<1>7. PICK g : g = [n \in 0 .. m |-> IF n < m THEN f[n] ELSE G[f[m - 1]]]
  OBVIOUS
<1>8. \A n \in 0 .. m - 1 : g[n] = f[n] /\ f[n] \in SUBSET U
  BY <1>5, <1>7, <1>6 DEF Rounds
<1>9. g[m] = G[f[m - 1]] /\ m - 1 \in 0 .. m - 1
  BY <1>4, <1>5, <1>7
<1>10. g \in [0 .. m -> SUBSET U]
  <2>1. ASSUME NEW n \in 0 .. m PROVE g[n] \in SUBSET U
    <3>1. CASE n = m
      BY <1>8, <1>9, <3>1
    <3>2. CASE n # m
      <4>1. n \in 0 .. m - 1
        BY <1>5, <3>2
      <4> QED BY <1>8, <4>1
    <3> QED BY <3>1, <3>2
  <2> QED BY <1>7, <2>1
<1>11. \A n \in 1 .. m : g[n] = G[g[n - 1]]
  <2> SUFFICES ASSUME NEW n \in 1 .. m PROVE g[n] = G[g[n - 1]]
    OBVIOUS
  <2>1. CASE n = m
    BY <1>8, <1>9, <2>1
  <2>2. CASE n # m
    <3>1. n \in 1 .. m - 1 /\ n \in 0 .. m - 1 /\ n - 1 \in 0 .. m - 1
      BY <1>5, <2>2
    <3>2. f[n] = G[f[n - 1]]
      BY <1>6, <3>1 DEF Rounds
    <3> QED BY <1>8, <3>1, <3>2
  <2> QED BY <2>1, <2>2
<1>12. g[0] = D
  BY <1>4, <1>5, <1>6, <1>8 DEF Rounds
<1>13. Rounds(g, U, D, G, m)
  BY <1>10, <1>11, <1>12 DEF Rounds
<1> QED BY <1>3, <1>13

(* The step only adds elements. *)
Widens(G, U) == \A T \in SUBSET U : T \subseteq G[T]

(* The last round reaches a set that holds the start and that the step no longer grows. *)
RoundsEnd(f, U, D, G) ==
    LET last == f[Cardinality(U)] IN
    D \subseteq last /\ last \in SUBSET U /\ G[last] = last

(* As many rounds as there are elements reach a set the step no longer grows. *)
LEMMA RoundsClose ==
    ASSUME NEW U, IsFiniteSet(U), NEW D \in SUBSET U, NEW G \in [SUBSET U -> SUBSET U],
           Widens(G, U), NEW f, Rounds(f, U, D, G, Cardinality(U))
    PROVE  RoundsEnd(f, U, D, G)
<1> DEFINE K == Cardinality(U)
           Holds(n) == D \subseteq f[n] /\ (G[f[n]] = f[n] \/ Cardinality(f[n]) >= n)
           Bad == {n \in 0 .. K : ~Holds(n)}
<1> \A T \in SUBSET U : T \subseteq G[T]
  BY DEF Widens
<1>0. K \in Nat
  BY FS_CardinalityType
<1>1. \A n \in 0 .. K : f[n] \in SUBSET U /\ IsFiniteSet(f[n]) /\ Cardinality(f[n]) \in Nat /\ Cardinality(f[n]) <= K
  BY FS_Subset, FS_CardinalityType DEF Rounds
<1>2. Bad = {}
  <2> SUFFICES ASSUME Bad # {} PROVE FALSE
    OBVIOUS
  <2>1. Bad \in SUBSET Nat
    BY <1>0
  <2>2. PICK m \in Bad : \A k \in Bad : m <= k
    <3> HIDE DEF Bad
    <3> QED BY <2>1, MinOfNat
  <2>3. m \in 0 .. K /\ ~Holds(m)
    BY <2>2
  <2>4. m # 0
    <3>1. f[0] = D
      BY DEF Rounds
    <3>2. Holds(0)
      BY <1>0, <1>1, <3>1
    <3> QED BY <2>3, <3>2
  <2>5. m - 1 \in 0 .. K /\ m \in 1 .. K
    BY <1>0, <2>3, <2>4
  <2>6. Holds(m - 1)
    BY <1>0, <2>2, <2>5
  <2>7. f[m] = G[f[m - 1]] /\ f[m - 1] \in SUBSET U /\ f[m - 1] \subseteq f[m]
    BY <1>1, <2>5 DEF Rounds
  <2>8. D \subseteq f[m]
    BY <2>6, <2>7
  <2>9. CASE G[f[m - 1]] = f[m - 1]
    <3>1. G[f[m]] = f[m]
      BY <2>7, <2>9
    <3> QED BY <2>3, <2>8, <3>1
  <2>10. CASE G[f[m - 1]] # f[m - 1]
    <3>1. Cardinality(f[m - 1]) >= m - 1
      BY <1>0, <2>5, <2>6, <2>10
    <3>2. f[m - 1] # f[m]
      BY <2>7, <2>10
    <3>3. Cardinality(f[m - 1]) < Cardinality(f[m])
      BY <1>1, <2>5, <2>7, <3>2, FS_Subset
    <3>4. Cardinality(f[m]) >= m
      BY <1>0, <1>1, <2>5, <3>1, <3>3
    <3> QED BY <2>3, <2>8, <3>4
  <2> QED BY <2>9, <2>10
<1>3. Holds(K)
  BY <1>0, <1>2
<1>4. G[f[K]] = f[K]
  <2>1. CASE Cardinality(f[K]) >= K
    <3>1. f[K] = U
      BY <1>0, <1>1, <2>1, FS_Subset
    <3>2. G[U] \in SUBSET U /\ U \subseteq G[U]
      OBVIOUS
    <3> QED BY <3>1, <3>2
  <2> QED BY <1>3, <2>1
<1> QED BY <1>0, <1>1, <1>3, <1>4 DEF RoundsEnd

(* A recursive table that starts in U, and steps as G does there, stays in U. *)
LEMMA RoundsTyped ==
    ASSUME NEW U, NEW D \in SUBSET U, NEW G \in [SUBSET U -> SUBSET U], NEW K \in Nat,
           NEW g, g = [n \in 0 .. K |-> g[n]], g[0] = D,
           \A n \in 1 .. K : g[n - 1] \in SUBSET U => g[n] = G[g[n - 1]]
    PROVE  Rounds(g, U, D, G, K)
<1> DEFINE Bad == {n \in 0 .. K : g[n] \notin SUBSET U}
<1>1. Bad = {}
  <2> SUFFICES ASSUME Bad # {} PROVE FALSE
    OBVIOUS
  <2>1. Bad \in SUBSET Nat
    OBVIOUS
  <2>2. PICK m \in Bad : \A k \in Bad : m <= k
    <3> HIDE DEF Bad
    <3> QED BY <2>1, MinOfNat
  <2>3. m \in 0 .. K /\ g[m] \notin SUBSET U
    BY <2>2
  <2>4. m # 0
    BY <2>3
  <2>5. m - 1 \in 0 .. K /\ m - 1 \notin Bad /\ m \in 1 .. K
    BY <2>2, <2>3, <2>4
  <2>6. g[m - 1] \in SUBSET U
    BY <2>5
  <2>7. g[m] = G[g[m - 1]]
    BY <2>5, <2>6
  <2> QED BY <2>3, <2>6, <2>7
<1>2. \A n \in 0 .. K : g[n] \in SUBSET U
  BY <1>1
<1>3. \A n \in 1 .. K : n - 1 \in 0 .. K
  OBVIOUS
<1>4. \A n \in 1 .. K : g[n] = G[g[n - 1]]
  BY <1>2, <1>3
<1>5. g \in [0 .. K -> SUBSET U]
  BY <1>2
<1> QED BY <1>4, <1>5 DEF Rounds
=============================================================================
