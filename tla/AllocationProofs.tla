---------------------------- MODULE AllocationProofs ----------------------------
(***************************************************************************)
(* What the pure functions of the inventory service compute, for every     *)
(* number of warehouses, products and lines: the plans of planAllocations  *)
(* and the lines of normalizeReservationLines.  Before that, the facts     *)
(* they rest on: sums over finite sets (SumFunctionOnSet of module         *)
(* Functions), recursions on numbers, and sorting.                         *)
(***************************************************************************)
EXTENDS Allocation, FiniteSetTheorems, FunctionTheorems, SequenceTheorems, TLAPS

-------------------------------------------------------------------------------
(* Sums over finite sets *)

(* Induction over the subsets of a finite set, stated with a set instead   *)
(* of a predicate: a smallest subset outside G cannot exist.               *)
LEMMA SubsetInduction ==
  ASSUME NEW S, IsFiniteSet(S), NEW G,
         \A t \in SUBSET S : (\A u \in SUBSET t : u # t => u \in G) => t \in G
  PROVE  SUBSET S \subseteq G
<1> DEFINE B == (SUBSET S) \ G
<1> SUFFICES ASSUME B # {} PROVE FALSE
  OBVIOUS
<1>1. IsWellFoundedOn(StrictSubsetOrdering(S), SUBSET S)
  <2>1. FiniteSubsetsOf(S) = SUBSET S
    BY FS_FiniteSubsetsOfFinite
  <2>2. IsWellFoundedOn(StrictSubsetOrdering(S), FiniteSubsetsOf(S))
    BY FS_StrictSubsetOrderingWellFounded
  <2> QED
    BY <2>1, <2>2
<1>2. B \subseteq SUBSET S
  OBVIOUS
<1> HIDE DEF B
<1>3. PICK t \in B : \A u \in B : ~ (<<u, t>> \in StrictSubsetOrdering(S))
  BY <1>1, <1>2, WFMin
<1>4. ASSUME NEW u \in SUBSET t, u # t PROVE u \in G
  <2>1. u \in SUBSET S /\ <<u, t>> \in StrictSubsetOrdering(S)
    BY <1>2, <1>3, <1>4 DEF StrictSubsetOrdering
  <2> QED
    BY <1>3, <2>1 DEF B
<1> QED
  BY <1>3, <1>4 DEF B

-------------------------------------------------------------------------------
(* The recursion behind SumFunctionOnSet *)

Pick(s) == CHOOSE x \in s : TRUE

IsIter(g, f, S) ==
  g = [s \in SUBSET S |-> IF s = {} THEN 0 ELSE f[Pick(s)] + g[s \ {Pick(s)}]]

LEMMA PickIsIn ==
  ASSUME NEW s, s # {}
  PROVE  Pick(s) \in s
BY DEF Pick

LEMMA SumIsIter ==
  ASSUME NEW f, NEW S
  PROVE  SumFunctionOnSet(f, S) = (CHOOSE g : IsIter(g, f, S))[S]
BY DEF SumFunctionOnSet, FoldFunctionOnSet, MapThenFoldSet, IsIter, Pick

LEMMA IterIs ==
  ASSUME NEW f, NEW S, NEW g, IsIter(g, f, S), NEW s \in SUBSET S
  PROVE  /\ s = {} => g[s] = 0
         /\ s # {} => g[s] = f[Pick(s)] + g[s \ {Pick(s)}]
BY DEF IsIter

LEMMA IterIsUnique ==
  ASSUME NEW f, NEW S, IsFiniteSet(S), NEW g, NEW h, IsIter(g, f, S), IsIter(h, f, S)
  PROVE  g = h
<1> DEFINE G == {s \in SUBSET S : g[s] = h[s]}
<1>1. ASSUME NEW t \in SUBSET S, \A u \in SUBSET t : u # t => u \in G
      PROVE  t \in G
  <2>1. CASE t = {}
    <3>1. g[t] = 0 /\ h[t] = 0
      BY <2>1, IterIs
    <3> QED
      BY <3>1
  <2>2. CASE t # {}
    <3>1. Pick(t) \in t
      BY <2>2, PickIsIn
    <3>2. t \ {Pick(t)} \in G
      BY <1>1, <3>1
    <3>3. g[t] = f[Pick(t)] + g[t \ {Pick(t)}] /\ h[t] = f[Pick(t)] + h[t \ {Pick(t)}]
      BY <2>2, IterIs
    <3> QED
      BY <3>2, <3>3
  <2> QED
    BY <2>1, <2>2
<1>2. SUBSET S \subseteq G
  <2>1. \A t \in SUBSET S : (\A u \in SUBSET t : u # t => u \in G) => t \in G
    BY <1>1
  <2> HIDE DEF G
  <2> QED
    BY <2>1, SubsetInduction
<1> QED
  BY <1>2 DEF IsIter

LEMMA IterOfSubset ==
  ASSUME NEW f, NEW S, NEW g, IsIter(g, f, S), NEW u \in SUBSET S
  PROVE  IsIter([s \in SUBSET u |-> g[s]], f, u)
<1> DEFINE h == [s \in SUBSET u |-> g[s]]
<1>1. ASSUME NEW s \in SUBSET u
      PROVE  h[s] = IF s = {} THEN 0 ELSE f[Pick(s)] + h[s \ {Pick(s)}]
  <2>1. s \in SUBSET S /\ s \ {Pick(s)} \in SUBSET u
    OBVIOUS
  <2>2. h[s] = g[s] /\ h[s \ {Pick(s)}] = g[s \ {Pick(s)}]
    BY <2>1
  <2> HIDE DEF h
  <2> QED
    BY <2>1, <2>2, IterIs
<1>2. h = [s \in SUBSET u |-> h[s]]
  OBVIOUS
<1> HIDE DEF h
<1>3. h = [s \in SUBSET u |-> IF s = {} THEN 0 ELSE f[Pick(s)] + h[s \ {Pick(s)}]]
  BY <1>1, <1>2
<1> QED
  BY <1>3 DEF IsIter, h

(* The recursion has a solution on every finite set: one for all smaller    *)
(* sets is put together from theirs.                                        *)
LEMMA IterExists ==
  ASSUME NEW f, NEW S, IsFiniteSet(S)
  PROVE  \E g : IsIter(g, f, S)
<1> DEFINE G == {t \in SUBSET S : \E g : IsIter(g, f, t)}
<1> DEFINE F(t) == (CHOOSE g : IsIter(g, f, t))[t]
<1>1. ASSUME NEW t \in SUBSET S, \A u \in SUBSET t : u # t => u \in G
      PROVE  t \in G
  <2>1. ASSUME NEW u \in SUBSET t, u # t, u # {}
        PROVE  F(u) = f[Pick(u)] + F(u \ {Pick(u)})
    <3> DEFINE v == u \ {Pick(u)}
    <3> DEFINE g == CHOOSE g : IsIter(g, f, u)
    <3> DEFINE h == CHOOSE h : IsIter(h, f, v)
    <3>1. v \in SUBSET u /\ v \in SUBSET t /\ v # t
      BY <2>1, PickIsIn
    <3>2. IsIter(g, f, u)
      BY <1>1, <2>1
    <3>3. IsIter(h, f, v)
      BY <1>1, <3>1
    <3>4. IsFiniteSet(v)
      BY <3>1, FS_Subset
    <3> HIDE DEF g, h, v
    <3>5. IsIter([s \in SUBSET v |-> g[s]], f, v)
      BY <3>1, <3>2, IterOfSubset
    <3>6. h = [s \in SUBSET v |-> g[s]]
      BY <3>3, <3>4, <3>5, IterIsUnique
    <3>7. h[v] = g[v]
      BY <3>6
    <3>8. g[u] = f[Pick(u)] + g[v]
      BY <2>1, <3>2, IterIs DEF v
    <3>9. F(u) = g[u] /\ F(v) = h[v]
      BY DEF g, h
    <3> QED
      BY <3>7, <3>8, <3>9 DEF v
  <2>2. F({}) = 0
    <3>1. IsIter([s \in SUBSET {} |-> 0], f, {})
      BY DEF IsIter
    <3> QED
      BY <3>1, IterIs
  <2> DEFINE k == [s \in SUBSET t |-> IF s = {} THEN 0 ELSE f[Pick(s)] + F(s \ {Pick(s)})]
  <2> HIDE DEF F
  <2>3. ASSUME NEW s \in SUBSET t, s # {}
        PROVE  k[s \ {Pick(s)}] = F(s \ {Pick(s)})
    <3> DEFINE v == s \ {Pick(s)}
    <3>1. v \in SUBSET t /\ v # t
      BY <2>3, PickIsIn
    <3>2. k[v] = IF v = {} THEN 0 ELSE f[Pick(v)] + F(v \ {Pick(v)})
      BY <3>1
    <3> HIDE DEF v, k
    <3>3. k[v] = F(v)
      BY <2>1, <2>2, <3>1, <3>2
    <3> QED
      BY <3>3 DEF v
  <2>4. k = [s \in SUBSET t |-> IF s = {} THEN 0 ELSE f[Pick(s)] + k[s \ {Pick(s)}]]
    BY <2>3
  <2>5. IsIter(k, f, t)
    <3> HIDE DEF k
    <3> QED
      BY <2>4 DEF IsIter
  <2> QED
    BY <2>5
<1>2. SUBSET S \subseteq G
  <2>1. \A t \in SUBSET S : (\A u \in SUBSET t : u # t => u \in G) => t \in G
    BY <1>1
  <2> HIDE DEF G
  <2> QED
    BY <2>1, SubsetInduction
<1> QED
  BY <1>2

-------------------------------------------------------------------------------
(* Sums *)

LEMMA SumOfEmpty ==
  ASSUME NEW f
  PROVE  SumFunctionOnSet(f, {}) = 0
<1>1. PICK g : IsIter(g, f, {})
  BY IterExists, FS_EmptySet
<1>2. IsIter(CHOOSE h : IsIter(h, f, {}), f, {})
  BY <1>1
<1> QED
  BY <1>2, IterIs, SumIsIter

LEMMA SumPick ==
  ASSUME NEW f, NEW S, IsFiniteSet(S), S # {}
  PROVE  SumFunctionOnSet(f, S) = f[Pick(S)] + SumFunctionOnSet(f, S \ {Pick(S)})
<1> DEFINE v == S \ {Pick(S)}
<1> DEFINE g == CHOOSE g : IsIter(g, f, S)
<1> DEFINE h == CHOOSE h : IsIter(h, f, v)
<1>1. v \in SUBSET S /\ IsFiniteSet(v)
  BY FS_RemoveElement
<1>2. IsIter(g, f, S) /\ IsIter(h, f, v)
  BY <1>1, IterExists
<1>3. SumFunctionOnSet(f, S) = g[S] /\ SumFunctionOnSet(f, v) = h[v]
  BY SumIsIter
<1> HIDE DEF g, h, v
<1>4. IsIter([s \in SUBSET v |-> g[s]], f, v)
  BY <1>1, <1>2, IterOfSubset
<1>5. h = [s \in SUBSET v |-> g[s]]
  BY <1>1, <1>2, <1>4, IterIsUnique
<1>a. h[v] = g[v]
  BY <1>5
<1>6. g[S] = f[Pick(S)] + g[v]
  BY <1>2, IterIs DEF v
<1> QED
  BY <1>3, <1>a, <1>6 DEF v

LEMMA SumType ==
  ASSUME NEW f, NEW S, IsFiniteSet(S), \A x \in S : f[x] \in Int
  PROVE  SumFunctionOnSet(f, S) \in Int
<1> DEFINE G == {t \in SUBSET S : SumFunctionOnSet(f, t) \in Int}
<1>1. ASSUME NEW t \in SUBSET S, \A u \in SUBSET t : u # t => u \in G
      PROVE  t \in G
  <2>1. CASE t = {}
    BY <2>1, SumOfEmpty
  <2>2. CASE t # {}
    <3>1. Pick(t) \in t /\ IsFiniteSet(t) /\ f[Pick(t)] \in Int
      BY <2>2, PickIsIn, FS_Subset
    <3>2. t \ {Pick(t)} \in G
      BY <1>1, <3>1
    <3>3. SumFunctionOnSet(f, t) = f[Pick(t)] + SumFunctionOnSet(f, t \ {Pick(t)})
      BY <2>2, <3>1, SumPick
    <3> QED
      BY <3>1, <3>2, <3>3
  <2> QED
    BY <2>1, <2>2
<1>2. SUBSET S \subseteq G
  <2>1. \A t \in SUBSET S : (\A u \in SUBSET t : u # t => u \in G) => t \in G
    BY <1>1
  <2> HIDE DEF G
  <2> QED
    BY <2>1, SubsetInduction
<1> QED
  BY <1>2

(* Any element may be taken out first: the order does not matter. *)
LEMMA SumRemove ==
  ASSUME NEW f, NEW S, IsFiniteSet(S), \A x \in S : f[x] \in Int, NEW a \in S
  PROVE  SumFunctionOnSet(f, S) = f[a] + SumFunctionOnSet(f, S \ {a})
<1> DEFINE G == {t \in SUBSET S : \A x \in t :
                   SumFunctionOnSet(f, t) = f[x] + SumFunctionOnSet(f, t \ {x})}
<1>1. ASSUME NEW t \in SUBSET S, \A u \in SUBSET t : u # t => u \in G
      PROVE  t \in G
  <2> SUFFICES ASSUME NEW x \in t
               PROVE  SumFunctionOnSet(f, t) = f[x] + SumFunctionOnSet(f, t \ {x})
    OBVIOUS
  <2> DEFINE p == Pick(t)
  <2>1. p \in t /\ f[p] \in Int /\ f[x] \in Int /\ IsFiniteSet(t)
    BY PickIsIn, FS_Subset
  <2>2. SumFunctionOnSet(f, t) = f[p] + SumFunctionOnSet(f, t \ {p})
    BY <2>1, SumPick
  <2> HIDE DEF p
  <2>3. CASE x = p
    BY <2>2, <2>3
  <2>4. CASE x # p
    <3>1. t \ {p} \in G /\ t \ {x} \in G /\ x \in t \ {p} /\ p \in t \ {x}
      BY <1>1, <2>1, <2>4
    <3>2. /\ SumFunctionOnSet(f, t \ {p}) = f[x] + SumFunctionOnSet(f, (t \ {p}) \ {x})
          /\ SumFunctionOnSet(f, t \ {x}) = f[p] + SumFunctionOnSet(f, (t \ {x}) \ {p})
      BY <3>1
    <3>3. (t \ {p}) \ {x} = (t \ {x}) \ {p}
      OBVIOUS
    <3>4. SumFunctionOnSet(f, (t \ {x}) \ {p}) \in Int
      <4>1. IsFiniteSet((t \ {x}) \ {p})
        BY <2>1, FS_RemoveElement
      <4> QED
        BY <4>1, SumType
    <3> DEFINE rest == SumFunctionOnSet(f, (t \ {x}) \ {p})
    <3>5. /\ SumFunctionOnSet(f, t \ {p}) = f[x] + rest
          /\ SumFunctionOnSet(f, t \ {x}) = f[p] + rest
          /\ rest \in Int
      BY <3>2, <3>3, <3>4
    <3> HIDE DEF rest
    <3>6. f[p] + (f[x] + rest) = f[x] + (f[p] + rest)
      BY <2>1, <3>5
    <3> QED
      BY <2>2, <3>5, <3>6
  <2> QED
    BY <2>3, <2>4
<1>2. SUBSET S \subseteq G
  <2>1. \A t \in SUBSET S : (\A u \in SUBSET t : u # t => u \in G) => t \in G
    BY <1>1
  <2> HIDE DEF G
  <2> QED
    BY <2>1, SubsetInduction
<1> QED
  BY <1>2

LEMMA SumSame ==
  ASSUME NEW f, NEW g, NEW S, IsFiniteSet(S), \A x \in S : f[x] = g[x]
  PROVE  SumFunctionOnSet(f, S) = SumFunctionOnSet(g, S)
<1> DEFINE G == {t \in SUBSET S : SumFunctionOnSet(f, t) = SumFunctionOnSet(g, t)}
<1>1. ASSUME NEW t \in SUBSET S, \A u \in SUBSET t : u # t => u \in G
      PROVE  t \in G
  <2>1. CASE t = {}
    BY <2>1, SumOfEmpty
  <2>2. CASE t # {}
    <3>1. Pick(t) \in t /\ IsFiniteSet(t) /\ f[Pick(t)] = g[Pick(t)]
      BY <2>2, PickIsIn, FS_Subset
    <3>2. t \ {Pick(t)} \in G
      BY <1>1, <3>1
    <3>3. /\ SumFunctionOnSet(f, t) = f[Pick(t)] + SumFunctionOnSet(f, t \ {Pick(t)})
          /\ SumFunctionOnSet(g, t) = g[Pick(t)] + SumFunctionOnSet(g, t \ {Pick(t)})
      BY <2>2, <3>1, SumPick
    <3> QED
      BY <3>1, <3>2, <3>3
  <2> QED
    BY <2>1, <2>2
<1>2. SUBSET S \subseteq G
  <2>1. \A t \in SUBSET S : (\A u \in SUBSET t : u # t => u \in G) => t \in G
    BY <1>1
  <2> HIDE DEF G
  <2> QED
    BY <2>1, SubsetInduction
<1> QED
  BY <1>2

-------------------------------------------------------------------------------
(* Sums of a function over its domain *)

LEMMA TotalIs ==
  ASSUME NEW S, NEW f, DOMAIN f = S
  PROVE  SumFunction(f) = SumFunctionOnSet(f, S)
BY DEF SumFunction

(* A term is added. *)
LEMMA TotalGrows ==
  ASSUME NEW S, IsFiniteSet(S), NEW a, a \notin S,
         NEW f \in [S -> Int], NEW g \in [S \cup {a} -> Int], \A x \in S : g[x] = f[x]
  PROVE  SumFunction(g) = SumFunction(f) + g[a]
<1>1. IsFiniteSet(S \cup {a}) /\ a \in S \cup {a} /\ (S \cup {a}) \ {a} = S
  BY FS_AddElement
<1>2. \A x \in S \cup {a} : g[x] \in Int
  OBVIOUS
<1>3. SumFunctionOnSet(g, S \cup {a}) = g[a] + SumFunctionOnSet(g, (S \cup {a}) \ {a})
  BY <1>1, <1>2, SumRemove
<1>4. SumFunctionOnSet(g, S) = SumFunctionOnSet(f, S)
  BY SumSame
<1> DEFINE total == SumFunctionOnSet(f, S)
<1>5. SumFunction(g) = SumFunctionOnSet(g, S \cup {a}) /\ SumFunction(f) = total
  BY TotalIs
<1>6. total \in Int /\ g[a] \in Int
  BY SumType
<1>7. SumFunctionOnSet(g, S \cup {a}) = g[a] + total
  BY <1>1, <1>3, <1>4
<1> HIDE DEF total
<1> QED
  BY <1>5, <1>6, <1>7

(* A term is taken away. *)
LEMMA TotalShrinks ==
  ASSUME NEW S, IsFiniteSet(S), NEW a \in S,
         NEW f \in [S -> Int], NEW g \in [S \ {a} -> Int], \A x \in S \ {a} : g[x] = f[x]
  PROVE  SumFunction(g) = SumFunction(f) - f[a]
<1>1. IsFiniteSet(S \ {a}) /\ a \notin S \ {a} /\ (S \ {a}) \cup {a} = S
  BY FS_RemoveElement
<1>2. SumFunction(f) = SumFunction(g) + f[a]
  BY <1>1, TotalGrows
<1>3. SumFunction(g) = SumFunctionOnSet(g, S \ {a})
  BY TotalIs
<1>4. SumFunction(g) \in Int
  BY <1>1, <1>3, SumType
<1> QED
  BY <1>2, <1>4

(* A term changes. *)
LEMMA TotalMoves ==
  ASSUME NEW S, IsFiniteSet(S), NEW a \in S,
         NEW f \in [S -> Int], NEW g \in [S -> Int], \A x \in S \ {a} : g[x] = f[x]
  PROVE  SumFunction(g) = SumFunction(f) - f[a] + g[a]
<1> DEFINE h == [x \in S \ {a} |-> f[x]]
<1>1. /\ h \in [S \ {a} -> Int] /\ \A x \in S \ {a} : h[x] = f[x] /\ h[x] = g[x]
      /\ IsFiniteSet(S \ {a})
  BY FS_RemoveElement
<1> HIDE DEF h
<1>2. SumFunction(h) = SumFunction(f) - f[a]
  BY <1>1, TotalShrinks
<1>3. SumFunction(h) = SumFunction(g) - g[a]
  BY <1>1, TotalShrinks
<1>4. SumFunction(f) \in Int /\ SumFunction(g) \in Int
  BY TotalIs, SumType
<1> QED
  BY <1>2, <1>3, <1>4

LEMMA SumOfZeros ==
  ASSUME NEW S, IsFiniteSet(S), NEW f, \A x \in S : f[x] = 0
  PROVE  SumFunctionOnSet(f, S) = 0
<1> DEFINE G == {t \in SUBSET S : SumFunctionOnSet(f, t) = 0}
<1>1. ASSUME NEW t \in SUBSET S, \A u \in SUBSET t : u # t => u \in G
      PROVE  t \in G
  <2>1. CASE t = {}
    BY <2>1, SumOfEmpty
  <2>2. CASE t # {}
    <3>1. Pick(t) \in t /\ IsFiniteSet(t)
      BY <2>2, PickIsIn, FS_Subset
    <3>2. t \ {Pick(t)} \in G
      BY <1>1, <3>1
    <3>3. SumFunctionOnSet(f, t) = f[Pick(t)] + SumFunctionOnSet(f, t \ {Pick(t)})
      BY <2>2, <3>1, SumPick
    <3> QED
      BY <3>1, <3>2, <3>3
  <2> QED
    BY <2>1, <2>2
<1>2. SUBSET S \subseteq G
  <2>1. \A t \in SUBSET S : (\A u \in SUBSET t : u # t => u \in G) => t \in G
    BY <1>1
  <2> HIDE DEF G
  <2> QED
    BY <2>1, SubsetInduction
<1> QED
  BY <1>2

LEMMA TotalOfZeros ==
  ASSUME NEW S, IsFiniteSet(S), NEW f, DOMAIN f = S, \A x \in S : f[x] = 0
  PROVE  SumFunction(f) = 0
BY SumOfZeros, TotalIs

(* The terms carry other names: b names the term that a named.             *)
LEMMA TotalRenamed ==
  ASSUME NEW S, IsFiniteSet(S), NEW T, NEW b \in [S -> T],
         \A x, y \in S : b[x] = b[y] => x = y, \A z \in T : \E x \in S : z = b[x],
         NEW f \in [S -> Int], NEW g \in [T -> Int], \A x \in S : g[b[x]] = f[x]
  PROVE  SumFunction(g) = SumFunction(f)
<1>0. IsFiniteSet(T)
  <2>1. b \in Surjection(S, T)
    BY DEF Surjection
  <2> QED
    BY <2>1, FS_Surjection
<1> DEFINE Image(t) == {b[x] : x \in t}
<1> DEFINE G == {t \in SUBSET S : SumFunctionOnSet(g, Image(t)) = SumFunctionOnSet(f, t)}
<1>1. ASSUME NEW t \in SUBSET S, \A u \in SUBSET t : u # t => u \in G
      PROVE  t \in G
  <2>1. CASE t = {}
    <3>1. Image(t) = {}
      BY <2>1
    <3> QED
      BY <2>1, <3>1, SumOfEmpty
  <2>2. CASE t # {}
    <3> DEFINE p == Pick(t)
    <3>1. p \in t /\ IsFiniteSet(t) /\ p \in S
      BY <2>2, PickIsIn, FS_Subset
    <3> HIDE DEF p
    <3>2. t \ {p} \in G
      BY <1>1, <3>1
    <3>3. Image(t) \ {b[p]} = Image(t \ {p}) /\ b[p] \in Image(t)
      BY <3>1
    <3>4. SumFunctionOnSet(f, t) = f[p] + SumFunctionOnSet(f, t \ {p})
      BY <3>1, SumRemove
    <3>5. SumFunctionOnSet(g, Image(t)) = g[b[p]] + SumFunctionOnSet(g, Image(t) \ {b[p]})
      <4>1. IsFiniteSet(Image(t))
        BY <1>0, FS_Subset
      <4>2. \A z \in Image(t) : g[z] \in Int
        OBVIOUS
      <4> HIDE DEF Image
      <4> QED
        BY <3>3, <4>1, <4>2, SumRemove
    <3>6. g[b[p]] = f[p]
      BY <3>1
    <3> QED
      BY <3>2, <3>3, <3>4, <3>5, <3>6
  <2> QED
    BY <2>1, <2>2
<1>2. SUBSET S \subseteq G
  <2>1. \A t \in SUBSET S : (\A u \in SUBSET t : u # t => u \in G) => t \in G
    BY <1>1
  <2> HIDE DEF G
  <2> QED
    BY <2>1, SubsetInduction
<1>3. Image(S) = T
  OBVIOUS
<1>4. SumFunctionOnSet(g, T) = SumFunctionOnSet(f, S)
  BY <1>2, <1>3
<1> QED
  BY <1>4, TotalIs

-------------------------------------------------------------------------------
(* Recursions *)

(* Induction up to a number, stated with a set instead of a predicate.      *)
LEMMA UpTo ==
  ASSUME NEW n \in Nat, NEW G, 0 \in G, \A k \in 0 .. n - 1 : k \in G => k + 1 \in G
  PROVE  0 .. n \subseteq G
<1> DEFINE H == {t \in SUBSET (0 .. n) : \A k \in 0 .. n : t = 0 .. k => k \in G}
<1>1. IsFiniteSet(0 .. n)
  BY FS_Interval
<1>2. ASSUME NEW t \in SUBSET (0 .. n), \A u \in SUBSET t : u # t => u \in H
      PROVE  t \in H
  <2> SUFFICES ASSUME NEW k \in 0 .. n, t = 0 .. k, k # 0
               PROVE  k \in G
    OBVIOUS
  <2>1. 0 .. k - 1 \in SUBSET t /\ 0 .. k - 1 # t /\ k - 1 \in 0 .. n - 1
    <3>1. k \in t /\ k \notin 0 .. k - 1
      OBVIOUS
    <3> QED
      BY <3>1
  <2>2. 0 .. k - 1 \in H
    BY <1>2, <2>1
  <2>3. k - 1 \in G
    BY <2>1, <2>2
  <2> QED
    BY <2>1, <2>3
<1>3. SUBSET (0 .. n) \subseteq H
  <2> DEFINE S == 0 .. n
  <2>1. \A t \in SUBSET S : (\A u \in SUBSET t : u # t => u \in H) => t \in H
    BY <1>2
  <2>2. IsFiniteSet(S)
    BY <1>1
  <2> HIDE DEF H, S
  <2>3. SUBSET S \subseteq H
    BY <2>1, <2>2, SubsetInduction
  <2> QED
    BY <2>3 DEF S
<1> QED
  <2> SUFFICES ASSUME NEW k \in 0 .. n PROVE k \in G
    OBVIOUS
  <2>1. 0 .. k \in SUBSET (0 .. n)
    OBVIOUS
  <2>2. 0 .. k \in H
    <3> HIDE DEF H
    <3> QED
      BY <1>3, <2>1
  <2> QED
    BY <2>2

(* A recursion over 0 .. n in D has a solution.  F[i] is its i-th step.      *)
Recursion(g, n, base, F) == g[0] = base /\ \A i \in 1 .. n : g[i] = F[i][g[i - 1]]

(* A recursion on numbers whose step F is a function of each has a          *)
(* solution.                                                                *)
LEMMA RecursionSolves ==
  ASSUME NEW n \in Nat, NEW D, NEW base \in D, NEW F \in [1 .. n -> [D -> D]]
  PROVE  \E g \in [0 .. n -> D] : Recursion(g, n, base, F)
<1> DEFINE Solves(g, k) == g = [i \in 0 .. k |-> IF i = 0 THEN base ELSE F[i][g[i - 1]]]
<1> DEFINE G == {k \in 0 .. n : \E g \in [0 .. k -> D] : Solves(g, k)}
<1>1. 0 \in G
  <2> DEFINE g == [i \in 0 .. 0 |-> base]
  <2>1. g \in [0 .. 0 -> D] /\ Solves(g, 0)
    OBVIOUS
  <2> HIDE DEF g, Solves
  <2>2. 0 \in 0 .. n /\ \E f \in [0 .. 0 -> D] : Solves(f, 0)
    BY <2>1
  <2> QED
    BY <2>2, Zenon
<1>2. ASSUME NEW k \in 0 .. n - 1, k \in G
      PROVE  k + 1 \in G
  <2>1. PICK g \in [0 .. k -> D] : Solves(g, k)
    BY <1>2
  <2> DEFINE h == [i \in 0 .. k + 1 |-> IF i = k + 1 THEN F[k + 1][g[k]] ELSE g[i]]
  <2>2. h \in [0 .. k + 1 -> D]
    <3>1. F[k + 1] \in [D -> D] /\ g[k] \in D
      OBVIOUS
    <3> QED
      BY <3>1
  <2>3. ASSUME NEW i \in 0 .. k + 1
        PROVE  h[i] = IF i = 0 THEN base ELSE F[i][h[i - 1]]
    <3>1. CASE i = k + 1
      BY <3>1
    <3>2. CASE i # k + 1
      <4>1. i \in 0 .. k /\ h[i] = g[i] /\ (i # 0 => h[i - 1] = g[i - 1])
        BY <3>2
      <4>2. g[i] = IF i = 0 THEN base ELSE F[i][g[i - 1]]
        <5> HIDE DEF h
        <5> QED
          BY <2>1, <4>1
      <4> HIDE DEF h
      <4> QED
        BY <4>1, <4>2
    <3> QED
      BY <3>1, <3>2
  <2>4. Solves(h, k + 1)
    <3>1. h = [i \in 0 .. k + 1 |-> h[i]]
      OBVIOUS
    <3> HIDE DEF h
    <3> QED
      BY <2>3, <3>1
  <2> HIDE DEF h, Solves
  <2> QED
    BY <2>2, <2>4
<1>3. 0 .. n \subseteq G
  <2>1. \A k \in 0 .. n - 1 : k \in G => k + 1 \in G
    BY <1>2
  <2> HIDE DEF G
  <2> QED
    BY <1>1, <2>1, UpTo
<1>4. n \in G
  <2> HIDE DEF G
  <2> QED
    BY <1>3
<1>5. PICK g \in [0 .. n -> D] : Solves(g, n)
  BY <1>4, Zenon
<1>6. Recursion(g, n, base, F)
  BY <1>5 DEF Recursion
<1> QED
  BY <1>6

(* So has the recursion of FoldLeft, over the sets of positions.            *)
LEMMA MaxIsLast ==
  ASSUME NEW k \in Nat, NEW s \in SUBSET (1 .. k + 1), k + 1 \in s
  PROVE  Max(s) = k + 1 /\ s \ {Max(s)} \in SUBSET (1 .. k)
<1>1. \A x \in s : x \in Int /\ x <= k + 1
  OBVIOUS
<1>2. \A x \in s : (\A y \in s : x >= y) => x = k + 1
  BY <1>1
<1>3. \E x \in s : \A y \in s : x >= y
  BY <1>1
<1>4. Max(s) \in s /\ \A y \in s : Max(s) >= y
  BY <1>3, Zenon DEF Max
<1>5. Max(s) = k + 1
  BY <1>2, <1>4
<1> QED
  BY <1>5

Folding(g, n, base, F) ==
  \A s \in SUBSET (1 .. n) :
    g[s] = IF s = {} THEN base ELSE F[Max(s)][g[s \ {Max(s)}]]

(* The recursion of FoldLeft over sets of positions has a solution.         *)
LEMMA FoldSolves ==
  ASSUME NEW n \in Nat, NEW D, NEW base \in D, NEW F \in [1 .. n -> [D -> D]]
  PROVE  \E g \in [SUBSET (1 .. n) -> D] : Folding(g, n, base, F)
<1> DEFINE Solves(g, k) ==
             g = [s \in SUBSET (1 .. k) |->
                    IF s = {} THEN base ELSE F[Max(s)][g[s \ {Max(s)}]]]
<1> DEFINE G == {k \in 0 .. n : \E g \in [SUBSET (1 .. k) -> D] : Solves(g, k)}
<1>1. 0 \in G
  <2> DEFINE g == [s \in SUBSET (1 .. 0) |-> base]
  <2>0. \A s \in SUBSET (1 .. 0) : s = {}
    OBVIOUS
  <2>1. g \in [SUBSET (1 .. 0) -> D] /\ Solves(g, 0)
    BY <2>0
  <2> HIDE DEF g, Solves
  <2>2. \E f \in [SUBSET (1 .. 0) -> D] : Solves(f, 0)
    BY <2>1, Zenon
  <2>3. 0 \in 0 .. n
    OBVIOUS
  <2> QED
    BY <2>2, <2>3, Zenon
<1>2. ASSUME NEW k \in 0 .. n - 1, k \in G
      PROVE  k + 1 \in G
  <2>1. PICK g \in [SUBSET (1 .. k) -> D] : Solves(g, k)
    BY <1>2
  <2> DEFINE h == [s \in SUBSET (1 .. k + 1) |->
                     IF k + 1 \in s THEN F[k + 1][g[s \ {k + 1}]] ELSE g[s]]
  <2>2. h \in [SUBSET (1 .. k + 1) -> D]
    <3> SUFFICES ASSUME NEW s \in SUBSET (1 .. k + 1)
                 PROVE  (IF k + 1 \in s THEN F[k + 1][g[s \ {k + 1}]] ELSE g[s]) \in D
      OBVIOUS
    <3>1. s \ {k + 1} \in SUBSET (1 .. k) /\ (k + 1 \notin s => s \in SUBSET (1 .. k))
      OBVIOUS
    <3>2. F[k + 1] \in [D -> D]
      OBVIOUS
    <3> QED
      BY <3>1, <3>2
  <2>3. ASSUME NEW s \in SUBSET (1 .. k + 1)
        PROVE  h[s] = IF s = {} THEN base ELSE F[Max(s)][h[s \ {Max(s)}]]
    <3>1. CASE k + 1 \in s
      <4>0. k \in Nat
        OBVIOUS
      <4>a. Max(s) = k + 1 /\ s \ {Max(s)} \in SUBSET (1 .. k)
        <5> HIDE DEF h, G
        <5> QED
          BY <3>1, <4>0, MaxIsLast
      <4>1. Max(s) = k + 1 /\ s \ {Max(s)} \in SUBSET (1 .. k) /\ k + 1 \notin s \ {k + 1} /\ s # {}
        BY <3>1, <4>a
      <4>2. h[s \ {k + 1}] = g[s \ {k + 1}] /\ h[s] = F[k + 1][g[s \ {k + 1}]]
        BY <3>1, <4>1
      <4> HIDE DEF h
      <4> QED
        BY <4>1, <4>2
    <3>2. CASE k + 1 \notin s
      <4>0. s \in SUBSET (1 .. k)
        <5> SUFFICES ASSUME NEW x \in s PROVE x \in 1 .. k
          OBVIOUS
        <5>1. x \in 1 .. k + 1 /\ x # k + 1
          BY <3>2
        <5> QED
          BY <5>1
      <4>1. s \in SUBSET (1 .. k) /\ s \ {Max(s)} \in SUBSET (1 .. k) /\ k + 1 \notin s \ {Max(s)}
            /\ s \ {Max(s)} \in SUBSET (1 .. k + 1)
        BY <3>2, <4>0, Zenon
      <4>2. h[s] = g[s] /\ h[s \ {Max(s)}] = g[s \ {Max(s)}]
        BY <3>2, <4>1
      <4>3. g[s] = IF s = {} THEN base ELSE F[Max(s)][g[s \ {Max(s)}]]
        <5> HIDE DEF h
        <5> QED
          BY <2>1, <4>1
      <4> HIDE DEF h
      <4> QED
        BY <4>2, <4>3
    <3> QED
      BY <3>1, <3>2
  <2>4. Solves(h, k + 1)
    <3>1. h = [s \in SUBSET (1 .. k + 1) |-> h[s]]
      OBVIOUS
    <3> HIDE DEF h
    <3> QED
      BY <2>3, <3>1
  <2> HIDE DEF h, Solves
  <2> QED
    BY <2>2, <2>4
<1>3. 0 .. n \subseteq G
  <2>1. \A k \in 0 .. n - 1 : k \in G => k + 1 \in G
    BY <1>2
  <2> HIDE DEF G
  <2> QED
    BY <1>1, <2>1, UpTo
<1>4. n \in G
  <2> HIDE DEF G
  <2> QED
    BY <1>3
<1>5. PICK g \in [SUBSET (1 .. n) -> D] : Solves(g, n)
  BY <1>4, Zenon
<1>6. Folding(g, n, base, F)
  <2> SUFFICES ASSUME NEW s \in SUBSET (1 .. n)
               PROVE  g[s] = IF s = {} THEN base ELSE F[Max(s)][g[s \ {Max(s)}]]
    BY DEF Folding
  <2> QED
    BY <1>5
<1> QED
  BY <1>6

-------------------------------------------------------------------------------
(* Sorting *)

(* A permutation that orders the numbers up to n by R.                      *)
OrderedBy(p, n, R) ==
  p \in Bijection(1 .. n, 1 .. n) /\ \A i, j \in 1 .. n : i < j => <<p[i], p[j]>> \in R

StrictTotal(n, R) ==
  /\ \A i, j \in 1 .. n : i # j => <<i, j>> \in R \/ <<j, i>> \in R
  /\ \A i, j \in 1 .. n : <<i, j>> \in R => <<j, i>> \notin R
  /\ \A i, j, k \in 1 .. n : <<i, j>> \in R /\ <<j, k>> \in R => <<i, k>> \in R

(* A strict total order of the numbers up to n puts them in a sequence.     *)
LEMMA OrderExists ==
  ASSUME NEW n \in Nat, NEW R, StrictTotal(n, R)
  PROVE  \E p : OrderedBy(p, n, R)
<1> DEFINE Below(i) == {j \in 1 .. n : <<j, i>> \in R}
<1> DEFINE rank == [i \in 1 .. n |-> Cardinality(Below(i)) + 1]
<1>0. IsFiniteSet(1 .. n) /\ Cardinality(1 .. n) = n
  BY FS_Interval
<1>1. ASSUME NEW i \in 1 .. n
      PROVE  IsFiniteSet(Below(i)) /\ Cardinality(Below(i)) \in 0 .. n - 1
  <2>1. i \notin Below(i)
    BY DEF StrictTotal
  <2>2. Below(i) \subseteq (1 .. n) \ {i}
    BY <2>1
  <2>3. IsFiniteSet((1 .. n) \ {i}) /\ Cardinality((1 .. n) \ {i}) = n - 1
    BY <1>0, FS_RemoveElement
  <2> HIDE DEF Below
  <2>4. IsFiniteSet(Below(i)) /\ Cardinality(Below(i)) <= n - 1
    BY <2>2, <2>3, FS_Subset
  <2>5. Cardinality(Below(i)) \in Nat
    BY <2>4, FS_CardinalityType
  <2> QED
    BY <2>4, <2>5
<1>2. rank \in [1 .. n -> 1 .. n]
  <2> HIDE DEF Below
  <2> QED
    BY <1>1
<1>3. ASSUME NEW i \in 1 .. n, NEW j \in 1 .. n, <<i, j>> \in R
      PROVE  rank[i] < rank[j]
  <2>1. Below(i) \subseteq Below(j)
    BY <1>3 DEF StrictTotal
  <2>2. i \in Below(j) /\ i \notin Below(i)
    BY <1>3 DEF StrictTotal
  <2> HIDE DEF Below
  <2>3. Below(i) \subseteq Below(j) \ {i}
    BY <2>1, <2>2
  <2>4. IsFiniteSet(Below(j) \ {i}) /\ Cardinality(Below(j) \ {i}) = Cardinality(Below(j)) - 1
    BY <1>1, <2>2, FS_RemoveElement
  <2>5. Cardinality(Below(i)) <= Cardinality(Below(j) \ {i})
    BY <2>3, <2>4, FS_Subset
  <2>6. Cardinality(Below(i)) \in Int /\ Cardinality(Below(j)) \in Int
    BY <1>1
  <2> QED
    BY <2>4, <2>5, <2>6
<1> HIDE DEF rank, Below
<1>4. \A i, j \in 1 .. n : i # j => rank[i] # rank[j]
  <2> SUFFICES ASSUME NEW i \in 1 .. n, NEW j \in 1 .. n, i # j PROVE rank[i] # rank[j]
    OBVIOUS
  <2>1. rank[i] \in Int /\ rank[j] \in Int
    BY <1>2
  <2>2. rank[i] < rank[j] \/ rank[j] < rank[i]
    BY <1>3 DEF StrictTotal
  <2> QED
    BY <2>1, <2>2
<1>5. rank \in Injection(1 .. n, 1 .. n)
  BY <1>2, <1>4, Fun_IsInj
<1>6. rank \in Surjection(1 .. n, 1 .. n)
  BY <1>0, <1>5, FS_Injection
<1> DEFINE p == [k \in 1 .. n |-> CHOOSE i \in 1 .. n : rank[i] = k]
<1>7. \A k \in 1 .. n : p[k] \in 1 .. n /\ rank[p[k]] = k
  <2> SUFFICES ASSUME NEW k \in 1 .. n PROVE p[k] \in 1 .. n /\ rank[p[k]] = k
    OBVIOUS
  <2>1. \E i \in 1 .. n : rank[i] = k
    BY <1>6, Zenon DEF Surjection
  <2>2. p[k] = CHOOSE i \in 1 .. n : rank[i] = k
    OBVIOUS
  <2> HIDE DEF p
  <2> QED
    BY <2>1, <2>2
<1>8. p \in [1 .. n -> 1 .. n]
  BY <1>7
<1> HIDE DEF p
<1>9. p \in Bijection(1 .. n, 1 .. n)
  <2>1. \A k, l \in 1 .. n : p[k] = p[l] => k = l
    BY <1>7
  <2>2. p \in Injection(1 .. n, 1 .. n)
    BY <1>8, <2>1, Fun_IsInj
  <2>3. p \in Surjection(1 .. n, 1 .. n)
    BY <1>0, <2>2, FS_Injection
  <2> QED
    BY <2>2, <2>3 DEF Bijection
<1>10. ASSUME NEW i \in 1 .. n, NEW j \in 1 .. n, i < j
       PROVE  <<p[i], p[j]>> \in R
  <2>1. p[i] \in 1 .. n /\ p[j] \in 1 .. n /\ rank[p[i]] = i /\ rank[p[j]] = j
    BY <1>7
  <2>2. p[i] # p[j]
    BY <1>10, <2>1
  <2>3. ~ (<<p[j], p[i]>> \in R)
    <3> SUFFICES ASSUME <<p[j], p[i]>> \in R PROVE FALSE
      OBVIOUS
    <3>1. rank[p[j]] < rank[p[i]]
      BY <1>3, <2>1
    <3> QED
      BY <1>10, <2>1, <3>1
  <2> QED
    BY <2>1, <2>2, <2>3 DEF StrictTotal
<1>11. OrderedBy(p, n, R)
  BY <1>9, <1>10 DEF OrderedBy
<1> QED
  BY <1>11

(* t has the elements of s, in another order.                               *)
Rearranged(t, s, n, E) ==
  /\ t \in [1 .. n -> E]
  /\ \A i \in 1 .. n : \E j \in 1 .. n : t[i] = s[j]
  /\ \A j \in 1 .. n : \E i \in 1 .. n : t[i] = s[j]

(* A permutation of a sequence has the same elements.                       *)
LEMMA PermutationKeeps ==
  ASSUME NEW n \in Nat, NEW E, NEW s \in [1 .. n -> E], NEW p \in Bijection(1 .. n, 1 .. n),
         NEW t, t = [i \in 1 .. n |-> t[i]], \A i \in 1 .. n : t[i] = s[p[i]]
  PROVE  Rearranged(t, s, n, E)
<1>1. /\ p \in [1 .. n -> 1 .. n]
      /\ \A i, j \in 1 .. n : p[i] = p[j] => i = j
      /\ \A j \in 1 .. n : \E i \in 1 .. n : p[i] = j
  <2>1. p \in Injection(1 .. n, 1 .. n) /\ p \in Surjection(1 .. n, 1 .. n)
    BY Zenon DEF Bijection
  <2>2. p \in [1 .. n -> 1 .. n] /\ IsInjective(p)
    BY <2>1, Zenon DEF Injection
  <2>3. \A i, j \in 1 .. n : p[i] = p[j] => i = j
    BY <2>2 DEF IsInjective
  <2> QED
    BY <2>1, <2>2, <2>3, Zenon DEF Surjection
<1>2. \A i \in 1 .. n : p[i] \in 1 .. n /\ t[i] = s[p[i]]
  BY <1>1
<1>3. t \in [1 .. n -> E]
  BY <1>1
<1>4. \A j \in 1 .. n : \E i \in 1 .. n : t[i] = s[j]
  BY <1>1, <1>2
<1>5. \A i \in 1 .. n : \E j \in 1 .. n : t[i] = s[j]
  BY <1>2
<1> QED
  BY <1>3, <1>4, <1>5 DEF Rearranged

(* Numbers in increasing order.                                             *)
LEMMA SortedNumbers ==
  ASSUME NEW n \in Nat, NEW E \in SUBSET Int, NEW s \in [1 .. n -> E],
         \A i, j \in 1 .. n : s[i] = s[j] => i = j
  PROVE  /\ Rearranged(Sorted(s, <), s, n, E)
         /\ \A i, j \in 1 .. n : i < j => Sorted(s, <)[i] < Sorted(s, <)[j]
<1> DEFINE R == {e \in (1 .. n) \X (1 .. n) : s[e[1]] < s[e[2]]}
<1> DEFINE Fits(p) == \A i, j \in 1 .. n : i < j => s[p[i]] < s[p[j]]
<1>1. \A i, j \in 1 .. n : <<i, j>> \in R <=> s[i] < s[j]
  OBVIOUS
<1>2. StrictTotal(n, R)
  <2>1. \A i \in 1 .. n : s[i] \in Int
    OBVIOUS
  <2> HIDE DEF R
  <2> QED
    BY <1>1, <2>1 DEF StrictTotal
<1> HIDE DEF R
<1>3. PICK p : OrderedBy(p, n, R)
  BY <1>2, OrderExists
<1>4. p \in Bijection(1 .. n, 1 .. n) /\ Fits(p)
  <2>1. p \in Bijection(1 .. n, 1 .. n) /\ \A i, j \in 1 .. n : i < j => <<p[i], p[j]>> \in R
    BY <1>3 DEF OrderedBy
  <2>2. \A i \in 1 .. n : p[i] \in 1 .. n
    BY <2>1 DEF Bijection, Injection
  <2> QED
    BY <1>1, <2>1, <2>2
<1> DEFINE o == CHOOSE q \in Bijection(1 .. n, 1 .. n) : Fits(q)
<1>5. o \in Bijection(1 .. n, 1 .. n) /\ Fits(o)
  <2> HIDE DEF Fits
  <2> QED
    BY <1>4
<1>6. Sorted(s, <) = [i \in 1 .. n |-> s[o[i]]]
  BY DEF Sorted
<1> HIDE DEF o
<1>7. \A i \in 1 .. n : Sorted(s, <)[i] = s[o[i]]
  BY <1>6
<1>8. PICK t : t = Sorted(s, <)
  OBVIOUS
<1>9. Rearranged(t, s, n, E)
  <2>1. t = [i \in 1 .. n |-> t[i]] /\ \A i \in 1 .. n : t[i] = s[o[i]]
    BY <1>6, <1>7, <1>8
  <2>2. o \in Bijection(1 .. n, 1 .. n)
    BY <1>5
  <2> QED
    BY <2>1, <2>2, PermutationKeeps
<1>10. \A i, j \in 1 .. n : i < j => t[i] < t[j]
  BY <1>5, <1>7, <1>8
<1> QED
  BY <1>8, <1>9, <1>10

-------------------------------------------------------------------------------
(* More about sums, and FoldLeft *)

(* Smaller terms make a smaller sum.                                        *)
LEMMA SumAtMost ==
  ASSUME NEW f, NEW g, NEW S, IsFiniteSet(S),
         \A x \in S : f[x] \in Int /\ g[x] \in Int /\ f[x] <= g[x]
  PROVE  SumFunctionOnSet(f, S) <= SumFunctionOnSet(g, S)
<1> DEFINE G == {t \in SUBSET S : SumFunctionOnSet(f, t) <= SumFunctionOnSet(g, t)}
<1>1. ASSUME NEW t \in SUBSET S, \A u \in SUBSET t : u # t => u \in G
      PROVE  t \in G
  <2>1. CASE t = {}
    <3>1. SumFunctionOnSet(f, t) = 0 /\ SumFunctionOnSet(g, t) = 0
      BY <2>1, SumOfEmpty
    <3> QED
      BY <3>1
  <2>2. CASE t # {}
    <3> DEFINE v == t \ {Pick(t)}
    <3>1. Pick(t) \in t /\ IsFiniteSet(t)
      BY <2>2, PickIsIn, FS_Subset
    <3>2. v \in G
      BY <1>1, <3>1
    <3>3. /\ SumFunctionOnSet(f, t) = f[Pick(t)] + SumFunctionOnSet(f, v)
          /\ SumFunctionOnSet(g, t) = g[Pick(t)] + SumFunctionOnSet(g, v)
      BY <2>2, <3>1, SumPick
    <3>4. IsFiniteSet(v) /\ v \subseteq S
      BY <3>1, FS_RemoveElement
    <3> HIDE DEF v
    <3>5. SumFunctionOnSet(f, v) \in Int /\ SumFunctionOnSet(g, v) \in Int
      BY <3>4, SumType
    <3>6. f[Pick(t)] \in Int /\ g[Pick(t)] \in Int /\ f[Pick(t)] <= g[Pick(t)]
      BY <3>1
    <3>7. SumFunctionOnSet(f, v) <= SumFunctionOnSet(g, v)
      BY <3>2
    <3> QED
      BY <3>3, <3>5, <3>6, <3>7
  <2> QED
    BY <2>1, <2>2
<1>2. SUBSET S \subseteq G
  <2>1. \A t \in SUBSET S : (\A u \in SUBSET t : u # t => u \in G) => t \in G
    BY <1>1
  <2> HIDE DEF G
  <2> QED
    BY <2>1, SubsetInduction
<1> QED
  BY <1>2

(* Smaller terms make a smaller total.                                      *)
LEMMA TotalAtMost ==
  ASSUME NEW S, IsFiniteSet(S), NEW f \in [S -> Int], NEW g \in [S -> Int],
         \A x \in S : f[x] <= g[x]
  PROVE  /\ SumFunction(f) <= SumFunction(g)
         /\ (\E x \in S : f[x] # g[x]) => SumFunction(f) < SumFunction(g)
         /\ SumFunction(f) \in Int /\ SumFunction(g) \in Int
<1>1. /\ SumFunction(f) = SumFunctionOnSet(f, S) /\ SumFunction(g) = SumFunctionOnSet(g, S)
      /\ SumFunctionOnSet(f, S) \in Int /\ SumFunctionOnSet(g, S) \in Int
  BY TotalIs, SumType
<1>2. SumFunctionOnSet(f, S) <= SumFunctionOnSet(g, S)
  BY SumAtMost
<1>3. ASSUME NEW a \in S, f[a] # g[a]
      PROVE  SumFunctionOnSet(f, S) < SumFunctionOnSet(g, S)
  <2> DEFINE v == S \ {a}
  <2>1. IsFiniteSet(v) /\ v \subseteq S
    BY FS_RemoveElement
  <2>2. /\ SumFunctionOnSet(f, S) = f[a] + SumFunctionOnSet(f, v)
        /\ SumFunctionOnSet(g, S) = g[a] + SumFunctionOnSet(g, v)
    BY SumRemove
  <2> HIDE DEF v
  <2>3. /\ SumFunctionOnSet(f, v) \in Int /\ SumFunctionOnSet(g, v) \in Int
        /\ SumFunctionOnSet(f, v) <= SumFunctionOnSet(g, v)
    BY <2>1, SumType, SumAtMost
  <2>4. f[a] \in Int /\ g[a] \in Int /\ f[a] < g[a]
    BY <1>3
  <2> QED
    BY <2>2, <2>3, <2>4
<1> QED
  BY <1>1, <1>2, <1>3

(* No term exceeds a total of naturals.                                     *)
LEMMA TermAtMostTotal ==
  ASSUME NEW S, IsFiniteSet(S), NEW f \in [S -> Nat], NEW a \in S
  PROVE  f[a] <= SumFunction(f)
<1> DEFINE v == S \ {a}
<1> DEFINE z == [x \in v |-> 0]
<1> DEFINE h == [x \in v |-> f[x]]
<1>1. IsFiniteSet(v) /\ z \in [v -> Int] /\ h \in [v -> Int] /\ \A x \in v : z[x] = 0 /\ h[x] = f[x]
  BY FS_RemoveElement
<1>2. f \in [S -> Int] /\ \A x \in v : z[x] <= h[x]
  OBVIOUS
<1> HIDE DEF z, h
<1>3. SumFunction(h) = SumFunction(f) - f[a]
  BY <1>1, <1>2, TotalShrinks
<1>4. SumFunction(z) = 0
  BY <1>1, TotalOfZeros
<1>5. SumFunction(z) <= SumFunction(h)
  <2> HIDE DEF v
  <2> QED
    BY <1>1, <1>2, TotalAtMost
<1>6. SumFunction(f) \in Int
  BY <1>2, TotalAtMost
<1> QED
  BY <1>3, <1>4, <1>5, <1>6

(* The total of one term is that term.                                      *)
LEMMA TotalOfOne ==
  ASSUME NEW a, NEW f, DOMAIN f = {a}, f[a] \in Int
  PROVE  SumFunction(f) = f[a]
<1>1. SumFunctionOnSet(f, {a}) = f[a] + SumFunctionOnSet(f, {a} \ {a})
  BY SumRemove, FS_Singleton
<1>2. {a} \ {a} = {}
  OBVIOUS
<1> QED
  BY <1>1, <1>2, SumOfEmpty, TotalIs

-------------------------------------------------------------------------------
(* The elements of a finite set, as a sequence.                             *)
LEMMA SetToSeqIs ==
  ASSUME NEW S, IsFiniteSet(S)
  PROVE  /\ Cardinality(S) \in Nat
         /\ SetToSeq(S) \in [1 .. Cardinality(S) -> S]
         /\ \A i, j \in 1 .. Cardinality(S) : SetToSeq(S)[i] = SetToSeq(S)[j] => i = j
         /\ \A x \in S : \E i \in 1 .. Cardinality(S) : SetToSeq(S)[i] = x
<1> DEFINE n == Cardinality(S)
<1> DEFINE s == SetToSeq(S)
<1>1. n \in Nat /\ ExistsBijection(1 .. n, S)
  BY FS_CardinalityType
<1>2. \E f \in [1 .. n -> S] : IsInjective(f)
  BY <1>1 DEF ExistsBijection, Bijection, Injection
<1>3. s = CHOOSE f \in [1 .. n -> S] : IsInjective(f)
  BY DEF SetToSeq
<1> HIDE DEF s
<1>4. s \in [1 .. n -> S] /\ IsInjective(s)
  BY <1>2, <1>3
<1>5. IsFiniteSet(1 .. n) /\ Cardinality(1 .. n) = n
  BY <1>1, FS_Interval
<1>6. s \in Surjection(1 .. n, S)
  <2>1. s \in Injection(1 .. n, S)
    BY <1>4 DEF Injection
  <2> QED
    BY <1>5, <2>1, FS_Injection
<1>7. \A x \in S : \E i \in 1 .. n : s[i] = x
  BY <1>6 DEF Surjection
<1>8. \A i, j \in 1 .. n : s[i] = s[j] => i = j
  BY <1>4 DEF IsInjective
<1> QED
  BY <1>1, <1>4, <1>7, <1>8 DEF s

-------------------------------------------------------------------------------
(* FoldLeft goes through the sets of positions from their largest on.       *)
LEMMA MaxIsIn ==
  ASSUME NEW n \in Nat, NEW s \in SUBSET (1 .. n), s # {}
  PROVE  Max(s) \in s
<1> DEFINE G == {k \in 0 .. n : \A t \in SUBSET (1 .. k) : t # {} => Max(t) \in t}
<1>1. 0 \in G
  <2>1. \A t \in SUBSET (1 .. 0) : t = {}
    OBVIOUS
  <2>2. 0 \in 0 .. n
    OBVIOUS
  <2> QED
    BY <2>1, <2>2, Zenon
<1>2. ASSUME NEW k \in 0 .. n - 1, k \in G PROVE k + 1 \in G
  <2> SUFFICES ASSUME NEW t \in SUBSET (1 .. k + 1), t # {} PROVE Max(t) \in t
    OBVIOUS
  <2>0. k \in Nat
    OBVIOUS
  <2>1. CASE k + 1 \in t
    <3> HIDE DEF G
    <3>1. Max(t) = k + 1
      BY <2>0, <2>1, MaxIsLast
    <3> QED
      BY <2>1, <3>1
  <2>2. CASE k + 1 \notin t
    <3>1. t \in SUBSET (1 .. k)
      <4> SUFFICES ASSUME NEW x \in t PROVE x \in 1 .. k
        OBVIOUS
      <4>1. x \in 1 .. k + 1 /\ x # k + 1
        BY <2>2
      <4> QED
        BY <2>0, <4>1
    <3> QED
      BY <1>2, <3>1
  <2> QED
    BY <2>1, <2>2
<1>3. 0 .. n \subseteq G
  <2>1. \A k \in 0 .. n - 1 : k \in G => k + 1 \in G
    BY <1>2
  <2> HIDE DEF G
  <2> QED
    BY <1>1, <2>1, UpTo
<1>4. n \in G
  <2> HIDE DEF G
  <2> QED
    BY <1>3
<1> QED
  BY <1>4

(* The last position of a prefix, and what is before it.                    *)
LEMMA PrefixesAre ==
  ASSUME NEW n \in Nat, NEW k \in 1 .. n
  PROVE  /\ 1 .. k \in SUBSET (1 .. n) /\ 1 .. k # {}
         /\ Max(1 .. k) = k /\ (1 .. k) \ {k} = 1 .. k - 1
<1>1. \A x \in 1 .. k : (\A y \in 1 .. k : x >= y) <=> x = k
  OBVIOUS
<1>2. Max(1 .. k) = k
  <2>1. k \in 1 .. k /\ \A y \in 1 .. k : k >= y
    OBVIOUS
  <2>2. Max(1 .. k) \in 1 .. k /\ \A y \in 1 .. k : Max(1 .. k) >= y
    BY <2>1, Zenon DEF Max
  <2> QED
    BY <1>1, <2>2
<1> QED
  BY <1>2

-------------------------------------------------------------------------------
(* normalizeReservationLines *)

DemandSteps(r, lines, n) ==
  /\ r[0] = [p \in Products |-> 0]
  /\ \A k \in 1 .. n : r[k] = [r[k - 1] EXCEPT ![lines[k].product] = @ + lines[k].qty]

(* Demand is what the last of its steps leaves.                             *)
LEMMA DemandFolds ==
  ASSUME NEW n \in Nat, NEW lines \in [1 .. n -> Line]
  PROVE  \E r : DemandSteps(r, lines, n) /\ Demand(lines) = r[n]
<1> DEFINE D == [Products -> Nat]
<1> DEFINE base == [p \in Products |-> 0]
<1> DEFINE F == [i \in 1 .. n |-> [t \in D |-> [t EXCEPT ![lines[i].product] = @ + lines[i].qty]]]
<1> DEFINE Iter(h) ==
             h = [s \in SUBSET DOMAIN lines |->
                    IF s = {} THEN base
                    ELSE LET x == Max(s)
                         IN  [h[s \ {x}] EXCEPT ![lines[x].product] = @ + lines[x].qty]]
<1>0. DOMAIN lines = 1 .. n /\ \A i \in 1 .. n : lines[i].product \in Products /\ lines[i].qty \in Nat
  BY DEF Line
<1>1. F \in [1 .. n -> [D -> D]]
  BY <1>0
<1>2. base \in D
  OBVIOUS
<1>3. PICK g \in [SUBSET (1 .. n) -> D] : Folding(g, n, base, F)
  <2> HIDE DEF F, D, base
  <2> QED
    BY <1>1, <1>2, FoldSolves
<1>4. Iter(g)
  <2>1. ASSUME NEW s \in SUBSET (1 .. n), s # {}
        PROVE  g[s] = LET x == Max(s)
                      IN  [g[s \ {x}] EXCEPT ![lines[x].product] = @ + lines[x].qty]
    <3>1. Max(s) \in 1 .. n
      <4>1. Max(s) \in s
        BY <2>1, MaxIsIn
      <4> QED
        BY <4>1
    <3>2. g[s] = F[Max(s)][g[s \ {Max(s)}]]
      <4> HIDE DEF F, base
      <4> QED
        BY <1>3, <2>1 DEF Folding
    <3>3. s \ {Max(s)} \in SUBSET (1 .. n)
      OBVIOUS
    <3>4. PICK m, t : m = Max(s) /\ t = g[s \ {Max(s)}]
      OBVIOUS
    <3>5. m \in 1 .. n /\ t \in D
      <4> HIDE DEF D
      <4> QED
        BY <3>1, <3>3, <3>4
    <3>6. F[m][t] = [t EXCEPT ![lines[m].product] = @ + lines[m].qty]
      <4> HIDE DEF D
      <4> QED
        BY <3>5
    <3> HIDE DEF F, D
    <3> QED
      BY <3>2, <3>4, <3>6
  <2>2. g[{}] = base
    <3> HIDE DEF F, base, D
    <3> QED
      BY <1>3 DEF Folding
  <2>3. g = [s \in SUBSET (1 .. n) |-> g[s]]
    OBVIOUS
  <2> HIDE DEF F, base, D
  <2>4. g = [s \in SUBSET (1 .. n) |->
               IF s = {} THEN base
               ELSE LET x == Max(s)
                    IN  [g[s \ {x}] EXCEPT ![lines[x].product] = @ + lines[x].qty]]
    BY <2>1, <2>2, <2>3
  <2> QED
    BY <1>0, <2>4
<1> DEFINE h == CHOOSE h : Iter(h)
<1>5. Demand(lines) = h[DOMAIN lines]
  BY DEF Demand, FoldLeft, MapThenFoldSet
<1>6. Iter(h)
  <2> HIDE DEF Iter
  <2> QED
    BY <1>4
<1> HIDE DEF h, F
<1> DEFINE r == [k \in 0 .. n |-> h[1 .. k]]
<1>7. \A k \in 0 .. n : r[k] = h[1 .. k]
  OBVIOUS
<1>8. Demand(lines) = r[n]
  BY <1>0, <1>5, <1>7
<1> HIDE DEF r
<1>9. r[0] = base
  <2>1. h[{}] = base
    BY <1>6
  <2> QED
    BY <1>7, <2>1
<1>10. ASSUME NEW k \in 1 .. n
       PROVE  r[k] = [r[k - 1] EXCEPT ![lines[k].product] = @ + lines[k].qty]
  <2>1. /\ 1 .. k \in SUBSET (1 .. n) /\ 1 .. k # {}
        /\ Max(1 .. k) = k /\ (1 .. k) \ {k} = 1 .. k - 1
    BY PrefixesAre
  <2>2. h[1 .. k] = [h[(1 .. k) \ {k}] EXCEPT ![lines[k].product] = @ + lines[k].qty]
    BY <1>0, <1>6, <2>1
  <2>3. r[k] = h[1 .. k] /\ r[k - 1] = h[1 .. k - 1]
    BY <1>7
  <2> QED
    BY <2>1, <2>2, <2>3
<1> QED
  BY <1>8, <1>9, <1>10 DEF DemandSteps

(* The lines that ask for a product, among the first k.                     *)
Asking(lines, k, p) == {j \in 1 .. k : lines[j].product = p}

(* g has a term more than f.                                                *)
AddsTerm(g, f, S, a) ==
  /\ IsFiniteSet(S) /\ a \notin S
  /\ f \in [S -> Int] /\ g \in [S \cup {a} -> Int] /\ \A x \in S : g[x] = f[x]

(* Another term adds to the total.                                          *)
LEMMA ExtendingGrows ==
  ASSUME NEW S, NEW a, NEW f, NEW g, AddsTerm(g, f, S, a)
  PROVE  SumFunction(g) = SumFunction(f) + g[a]
BY TotalGrows DEF AddsTerm

(* Demand has, for every product, the total of the lines that ask for it.   *)
LEMMA DemandIs ==
  ASSUME NEW n \in Nat, NEW lines \in [1 .. n -> Line]
  PROVE  /\ Demand(lines) \in [Products -> Nat]
         /\ \A p \in Products :
              Demand(lines)[p] = SumFunction([i \in Asking(lines, n, p) |-> lines[i].qty])
<1>1. PICK r : DemandSteps(r, lines, n) /\ Demand(lines) = r[n]
  BY DemandFolds
<1> DEFINE Total(k, p) == SumFunction([i \in Asking(lines, k, p) |-> lines[i].qty])
<1> DEFINE G == {k \in 0 .. n : r[k] \in [Products -> Nat] /\ \A p \in Products : r[k][p] = Total(k, p)}
<1>0. \A i \in 1 .. n : lines[i].product \in Products /\ lines[i].qty \in Nat
  BY DEF Line
<1>2. 0 \in G
  <2>1. r[0] = [p \in Products |-> 0]
    BY <1>1 DEF DemandSteps
  <2>2. ASSUME NEW p \in Products PROVE Total(0, p) = 0
    <3>1. Asking(lines, 0, p) = {}
      BY DEF Asking
    <3> QED
      BY <3>1, FS_EmptySet, TotalOfZeros
  <2>3. 0 \in 0 .. n
    OBVIOUS
  <2> HIDE DEF Total
  <2>4. r[0] \in [Products -> Nat] /\ \A p \in Products : r[0][p] = Total(0, p)
    BY <2>1, <2>2
  <2> QED
    BY <2>3, <2>4, Zenon
<1>3. ASSUME NEW k \in 0 .. n - 1, k \in G PROVE k + 1 \in G
  <2>0. k + 1 \in 1 .. n /\ (k + 1) - 1 = k /\ k \in Nat
    OBVIOUS
  <2>1. r[k + 1] = [r[k] EXCEPT ![lines[k + 1].product] = @ + lines[k + 1].qty]
    BY <1>1, <2>0 DEF DemandSteps
  <2>2. r[k] \in [Products -> Nat] /\ \A p \in Products : r[k][p] = Total(k, p)
    BY <1>3
  <2>3. lines[k + 1].product \in Products /\ lines[k + 1].qty \in Nat
    BY <1>0, <2>0
  <2> HIDE DEF G, Total
  <2>4. r[k + 1] \in [Products -> Nat]
    <3>1. r[k] \in [Products -> Nat]
      BY <2>2
    <3> QED
      BY <2>1, <2>3, <3>1
  <2>5. ASSUME NEW p \in Products
        PROVE  r[k + 1][p] = Total(k + 1, p)
    <3>1. CASE lines[k + 1].product = p
      <4> DEFINE S == Asking(lines, k, p)
      <4> DEFINE f == [i \in S |-> lines[i].qty]
      <4> DEFINE g == [i \in S \cup {k + 1} |-> lines[i].qty]
      <4>1. Asking(lines, k + 1, p) = S \cup {k + 1} /\ k + 1 \notin S /\ S \subseteq 1 .. k
        BY <2>0, <3>1 DEF Asking
      <4>2. IsFiniteSet(S)
        <5>1. IsFiniteSet(1 .. k)
          BY <2>0, FS_Interval
        <5> QED
          BY <4>1, <5>1, FS_Subset
      <4>3. \A i \in S \cup {k + 1} : lines[i].qty \in Int
        BY <1>0, <2>0, <4>1
      <4> HIDE DEF S
      <4>4. f \in [S -> Int] /\ g \in [S \cup {k + 1} -> Int] /\ g[k + 1] = lines[k + 1].qty
            /\ \A i \in S : g[i] = f[i]
        BY <4>3
      <4> HIDE DEF f, g
      <4>5. SumFunction(g) = SumFunction(f) + g[k + 1]
        <5>1. PICK T, a, u, v : T = S /\ a = k + 1 /\ u = f /\ v = g
          OBVIOUS
        <5>2. IsFiniteSet(T) /\ a \notin T
          BY <4>1, <4>2, <5>1
        <5>3. u \in [T -> Int] /\ v \in [T \cup {a} -> Int] /\ \A x \in T : v[x] = u[x]
          BY <4>4, <5>1
        <5>4. AddsTerm(v, u, T, a)
          BY <5>2, <5>3 DEF AddsTerm
        <5>5. SumFunction(v) = SumFunction(u) + v[a]
          BY <5>4, ExtendingGrows
        <5> QED
          BY <5>1, <5>5
      <4>6. Total(k, p) = SumFunction(f) /\ Total(k + 1, p) = SumFunction(g)
        BY <4>1 DEF Total, f, g, S
      <4>7. r[k + 1][p] = r[k][p] + lines[k + 1].qty
        BY <2>1, <2>2, <3>1
      <4> QED
        BY <2>2, <4>4, <4>5, <4>6, <4>7
    <3>2. CASE lines[k + 1].product # p
      <4>1. Asking(lines, k + 1, p) = Asking(lines, k, p)
        BY <2>0, <3>2 DEF Asking
      <4>2. Total(k + 1, p) = Total(k, p)
        BY <4>1 DEF Total
      <4>3. r[k + 1][p] = r[k][p]
        BY <2>1, <2>2, <3>2
      <4> QED
        BY <2>2, <4>2, <4>3
    <3> QED
      BY <3>1, <3>2
  <2> QED
    BY <2>0, <2>4, <2>5 DEF G
<1>4. 0 .. n \subseteq G
  <2>1. \A k \in 0 .. n - 1 : k \in G => k + 1 \in G
    BY <1>3
  <2> HIDE DEF G
  <2> QED
    BY <1>2, <2>1, UpTo
<1>5. n \in G
  <2> HIDE DEF G
  <2> QED
    BY <1>4
<1> QED
  BY <1>1, <1>5

(* AllocationIsRight, of a call that normalizes.                            *)
NormalizedRight(lines, normalized) ==
  /\ \A i, j \in DOMAIN normalized : i < j => normalized[i].product < normalized[j].product
  /\ \A p \in Products :
       LET asked == {i \in DOMAIN lines : lines[i].product = p}
           kept == {i \in DOMAIN normalized : normalized[i].product = p}
       IN  SumFunction([i \in kept |-> normalized[i].qty])
             = SumFunction([i \in asked |-> lines[i].qty])

(* For lines of any number, products and quantities,                        *)
(* normalizeReservationLines (stockMath.ts:5-16) keeps the total of every   *)
(* product and lists each once, in the order of the ids.                    *)
THEOREM NormalizingIsRight ==
  ASSUME NEW n \in Nat, NEW lines \in [1 .. n -> Line]
  PROVE  NormalizedRight(lines, NormalizeLines(lines))
<1> DEFINE A == {p \in Products : Demand(lines)[p] > 0}
<1>0. PICK total : total = Demand(lines)
  OBVIOUS
<1>1. total \in [Products -> Nat] /\ \A p \in Products :
        total[p] = SumFunction([i \in Asking(lines, n, p) |-> lines[i].qty])
  BY <1>0, DemandIs
<1>2. IsFiniteSet(A)
  <2> DEFINE f == [i \in 1 .. n |-> lines[i].product]
  <2>1. f \in Surjection(1 .. n, Range(f))
    <3>1. f \in [1 .. n -> Range(f)]
      BY DEF Range
    <3>2. \A y \in Range(f) : \E i \in 1 .. n : f[i] = y
      BY DEF Range
    <3> HIDE DEF f
    <3> QED
      BY <3>1, <3>2, Fun_IsSurj
  <2>2. IsFiniteSet(Range(f))
    <3> HIDE DEF f
    <3> QED
      BY <2>1, FS_Interval, FS_Surjection
  <2>3. ASSUME NEW p \in A PROVE p \in Range(f)
    <3>1. p \in Products /\ total[p] > 0
      BY <1>0
    <3>2. Asking(lines, n, p) # {}
      <4> SUFFICES ASSUME Asking(lines, n, p) = {} PROVE FALSE
        OBVIOUS
      <4>1. total[p] = 0
        <5> DEFINE g == [i \in Asking(lines, n, p) |-> lines[i].qty]
        <5>1. DOMAIN g = {} /\ total[p] = SumFunction(g)
          BY <1>1, <3>1
        <5> HIDE DEF g
        <5> QED
          BY <5>1, FS_EmptySet, TotalOfZeros
      <4> QED
        BY <3>1, <4>1
    <3>3. PICK i \in 1 .. n : lines[i].product = p
      BY <3>2 DEF Asking
    <3>4. i \in DOMAIN f /\ f[i] = p
      BY <3>3
    <3> HIDE DEF f
    <3> QED
      BY <3>4 DEF Range
  <2>4. A \subseteq Range(f)
    <3> HIDE DEF A, f
    <3> QED
      BY <2>3
  <2> HIDE DEF A, f
  <2> QED
    BY <2>2, <2>4, FS_Subset
<1> DEFINE m == Cardinality(A)
<1> DEFINE s == SetToSeq(A)
<1> DEFINE t == Sorted(s, <)
<1>3. /\ m \in Nat /\ s \in [1 .. m -> A]
      /\ \A i, j \in 1 .. m : s[i] = s[j] => i = j
      /\ \A p \in A : \E i \in 1 .. m : s[i] = p
  <2> HIDE DEF A
  <2> QED
    BY <1>2, SetToSeqIs
<1>4. A \in SUBSET Int
  <2>1. A \subseteq Products
    OBVIOUS
  <2> HIDE DEF A
  <2> QED
    BY <2>1, IdsAreNumbered
<1>5. /\ Rearranged(t, s, m, A)
      /\ \A i, j \in 1 .. m : i < j => t[i] < t[j]
  <2> HIDE DEF A, m, s
  <2> QED
    BY <1>3, <1>4, SortedNumbers
<1>6. NormalizeLines(lines) = [i \in DOMAIN t |-> [product |-> t[i], qty |-> total[t[i]]]]
  BY <1>0 DEF NormalizeLines
<1> HIDE DEF m, s, t
<1>7. /\ t \in [1 .. m -> A]
      /\ \A p \in A : \E i \in 1 .. m : t[i] = p
  <2> HIDE DEF A
  <2>1. t \in [1 .. m -> A] /\ \A j \in 1 .. m : \E i \in 1 .. m : t[i] = s[j]
    BY <1>5 DEF Rearranged
  <2> QED
    BY <1>3, <2>1
<1>8. PICK res : res = NormalizeLines(lines)
  OBVIOUS
<1>9. /\ DOMAIN res = 1 .. m
      /\ \A i \in 1 .. m : res[i].product = t[i] /\ res[i].qty = total[t[i]] /\ t[i] \in Products
  BY <1>6, <1>7, <1>8
<1>10. \A i, j \in 1 .. m : t[i] = t[j] => i = j
  <2> SUFFICES ASSUME NEW i \in 1 .. m, NEW j \in 1 .. m, t[i] = t[j], i # j PROVE FALSE
    OBVIOUS
  <2>1. t[i] \in Int /\ (t[i] < t[j] \/ t[j] < t[i])
    <3>1. i < j \/ j < i
      BY <1>3
    <3>2. t[i] \in Int
      BY <1>4, <1>7
    <3> QED
      BY <1>5, <3>1, <3>2
  <2> QED
    BY <2>1
<1>11. ASSUME NEW p \in Products
       PROVE  SumFunction([i \in {j \in 1 .. m : t[j] = p} |-> res[i].qty]) = total[p]
  <2> DEFINE kept == {j \in 1 .. m : t[j] = p}
  <2> DEFINE f == [i \in kept |-> res[i].qty]
  <2>1. CASE p \in A
    <3>1. PICK i \in 1 .. m : t[i] = p
      BY <1>7, <2>1
    <3>2. kept = {i}
      BY <1>10, <3>1
    <3>3. DOMAIN f = {i} /\ f[i] = total[p]
      BY <1>9, <3>1, <3>2
    <3>4. total[p] \in Int
      BY <1>1
    <3> HIDE DEF f, kept
    <3> QED
      BY <3>3, <3>4, TotalOfOne DEF f, kept
  <2>2. CASE p \notin A
    <3>1. total[p] = 0
      BY <1>0, <1>1, <2>2
    <3>2. kept = {}
      BY <1>7, <2>2
    <3>3. DOMAIN f = {}
      BY <3>2
    <3>4. SumFunction(f) = 0
      <4> HIDE DEF f
      <4> QED
        BY <3>3, FS_EmptySet, TotalOfZeros
    <3> QED
      BY <3>1, <3>4
  <2> QED
    BY <2>1, <2>2
<1>12. \A i, j \in DOMAIN res : i < j => res[i].product < res[j].product
  BY <1>5, <1>9
<1>13. ASSUME NEW p \in Products
       PROVE  SumFunction([i \in {j \in DOMAIN res : res[j].product = p} |-> res[i].qty])
                = SumFunction([i \in {j \in DOMAIN lines : lines[j].product = p} |-> lines[i].qty])
  <2>1. {j \in DOMAIN res : res[j].product = p} = {j \in 1 .. m : t[j] = p}
    BY <1>9
  <2>2. {j \in DOMAIN lines : lines[j].product = p} = Asking(lines, n, p)
    BY DEF Asking
  <2> QED
    BY <1>1, <1>11, <2>1, <2>2
<1> QED
  BY <1>8, <1>12, <1>13, Zenon DEF NormalizedRight

-------------------------------------------------------------------------------
(* planAllocations: the candidates *)

(* The comparator of planAllocations decides between any two candidates.    *)
LEMMA UsedBeforeDecides ==
  ASSUME NEW available, NEW a, NEW b, NEW c, a \in Int, b \in Int, c \in Int,
         available[a] \in Int, available[b] \in Int, available[c] \in Int
  PROVE  /\ a # b => UsedBefore(available, a, b) \/ UsedBefore(available, b, a)
         /\ UsedBefore(available, a, b) => ~UsedBefore(available, b, a)
         /\ UsedBefore(available, a, b) /\ UsedBefore(available, b, c) => UsedBefore(available, a, c)
BY SMT DEF UsedBefore

SortedByUse(available, s) == Sorted(s, LAMBDA a, b : UsedBefore(available, a, b))

(* Array.prototype.sort with that comparator puts the candidates in order.  *)
LEMMA SortedCandidates ==
  ASSUME NEW n \in Nat, NEW E \in SUBSET Int, NEW available, \A w \in E : available[w] \in Int,
         NEW s \in [1 .. n -> E], \A i, j \in 1 .. n : s[i] = s[j] => i = j
  PROVE  /\ Rearranged(SortedByUse(available, s), s, n, E)
         /\ \A i, j \in 1 .. n : i < j =>
              UsedBefore(available, SortedByUse(available, s)[i], SortedByUse(available, s)[j])
<1> DEFINE R == {e \in (1 .. n) \X (1 .. n) : UsedBefore(available, s[e[1]], s[e[2]])}
<1> DEFINE Fits(p) == \A i, j \in 1 .. n : i < j => UsedBefore(available, s[p[i]], s[p[j]])
<1>1. \A i, j \in 1 .. n : <<i, j>> \in R <=> UsedBefore(available, s[i], s[j])
  OBVIOUS
<1>2. StrictTotal(n, R)
  <2>1. \A i \in 1 .. n : s[i] \in Int /\ available[s[i]] \in Int
    OBVIOUS
  <2> HIDE DEF R
  <2>2. \A i, j \in 1 .. n : i # j => UsedBefore(available, s[i], s[j]) \/ UsedBefore(available, s[j], s[i])
    BY <2>1, UsedBeforeDecides
  <2>3. \A i, j \in 1 .. n : UsedBefore(available, s[i], s[j]) => ~UsedBefore(available, s[j], s[i])
    BY <2>1, UsedBeforeDecides
  <2>4. \A i, j, k \in 1 .. n :
          UsedBefore(available, s[i], s[j]) /\ UsedBefore(available, s[j], s[k])
            => UsedBefore(available, s[i], s[k])
    BY <2>1, UsedBeforeDecides
  <2> QED
    BY <1>1, <2>2, <2>3, <2>4 DEF StrictTotal
<1> HIDE DEF R
<1>3. PICK p : OrderedBy(p, n, R)
  BY <1>2, OrderExists
<1>4. p \in Bijection(1 .. n, 1 .. n) /\ Fits(p)
  <2>1. p \in Bijection(1 .. n, 1 .. n) /\ \A i, j \in 1 .. n : i < j => <<p[i], p[j]>> \in R
    BY <1>3 DEF OrderedBy
  <2>2. \A i \in 1 .. n : p[i] \in 1 .. n
    BY <2>1 DEF Bijection, Injection
  <2> QED
    BY <1>1, <2>1, <2>2
<1> DEFINE o == CHOOSE q \in Bijection(1 .. n, 1 .. n) : Fits(q)
<1>5. o \in Bijection(1 .. n, 1 .. n) /\ Fits(o)
  <2> HIDE DEF Fits
  <2> QED
    BY <1>4
<1>6. SortedByUse(available, s) = [i \in 1 .. n |-> s[o[i]]]
  BY DEF Sorted, SortedByUse
<1> HIDE DEF o
<1>7. \A i \in 1 .. n : SortedByUse(available, s)[i] = s[o[i]]
  BY <1>6
<1>8. PICK t : t = SortedByUse(available, s)
  OBVIOUS
<1>9. Rearranged(t, s, n, E)
  <2>1. t = [i \in 1 .. n |-> t[i]] /\ \A i \in 1 .. n : t[i] = s[o[i]]
    BY <1>6, <1>7, <1>8
  <2>2. o \in Bijection(1 .. n, 1 .. n)
    BY <1>5
  <2> QED
    BY <2>1, <2>2, PermutationKeeps
<1>10. ASSUME NEW i \in 1 .. n, NEW j \in 1 .. n, i < j
       PROVE  UsedBefore(available, t[i], t[j])
  <2>1. t[i] = s[o[i]] /\ t[j] = s[o[j]]
    BY <1>7, <1>8
  <2>2. UsedBefore(available, s[o[i]], s[o[j]])
    BY <1>5, <1>10
  <2> QED
    BY <2>1, <2>2, Zenon
<1> QED
  BY <1>8, <1>9, <1>10

(* The candidates of planAllocations, in the order in which it uses them.   *)
Usable(available) == {w \in DOMAIN available : available[w] > 0}
InUse(available) == SortedByUse(available, SetToSeq(Usable(available)))

UseOrder(c, m, available) ==
  /\ m \in Nat /\ c \in [1 .. m -> Usable(available)]
  /\ \A i, j \in 1 .. m : i < j => UsedBefore(available, c[i], c[j])
  /\ \A i, j \in 1 .. m : c[i] = c[j] => i = j
  /\ \A w \in Usable(available) : \E i \in 1 .. m : c[i] = w

(* planAllocations goes through every usable warehouse once, in order.      *)
LEMMA CandidatesInOrder ==
  ASSUME NEW available \in [Warehouses -> Int]
  PROVE  UseOrder(InUse(available), Cardinality(Usable(available)), available)
<1> DEFINE E == Usable(available)
<1> DEFINE n == Cardinality(E)
<1>1. E \in SUBSET Warehouses /\ \A w \in E : available[w] \in Int
  BY DEF Usable
<1>2. IsFiniteSet(E) /\ E \in SUBSET Int
  <2> HIDE DEF E
  <2>1. IsFiniteSet(E)
    BY <1>1, IdsAreNumbered, FS_Subset
  <2>2. E \in SUBSET Int
    BY <1>1, IdsAreNumbered
  <2> QED
    BY <2>1, <2>2
<1>3. PICK s, t : s = SetToSeq(E) /\ t = SortedByUse(available, s)
  OBVIOUS
<1> HIDE DEF E
<1>4. /\ n \in Nat /\ s \in [1 .. n -> E]
      /\ \A i, j \in 1 .. n : s[i] = s[j] => i = j
      /\ \A w \in E : \E i \in 1 .. n : s[i] = w
  BY <1>2, <1>3, SetToSeqIs
<1> HIDE DEF n
<1>5. /\ Rearranged(t, s, n, E)
      /\ \A i, j \in 1 .. n : i < j => UsedBefore(available, t[i], t[j])
  BY <1>1, <1>2, <1>3, <1>4, SortedCandidates
<1>6. t \in [1 .. n -> E] /\ \A w \in E : \E i \in 1 .. n : t[i] = w
  <2>1. t \in [1 .. n -> E] /\ \A j \in 1 .. n : \E i \in 1 .. n : t[i] = s[j]
    BY <1>5 DEF Rearranged
  <2> QED
    BY <1>4, <2>1
<1>7. \A i, j \in 1 .. n : t[i] = t[j] => i = j
  <2> SUFFICES ASSUME NEW i \in 1 .. n, NEW j \in 1 .. n, t[i] = t[j], i < j PROVE FALSE
    BY <1>4
  <2>1. UsedBefore(available, t[i], t[i])
    BY <1>5
  <2>2. t[i] \in Int /\ available[t[i]] \in Int
    BY <1>1, <1>2, <1>6
  <2> QED
    BY <2>1, <2>2, UsedBeforeDecides
<1>8. UseOrder(t, n, available)
  BY <1>4, <1>5, <1>6, <1>7 DEF UseOrder, E
<1> QED
  BY <1>3, <1>8 DEF InUse, E, n

-------------------------------------------------------------------------------
(* planAllocations: the loop *)

LoopState == [remaining : Nat, lines : Seq([warehouse : Warehouses, qty : Nat])]

(* The body of the loop.                                                    *)
Taking(plan, w, available) ==
  LET allocated == IF plan.remaining < available[w] THEN plan.remaining ELSE available[w]
  IN  IF plan.remaining = 0
      THEN plan
      ELSE [remaining |-> plan.remaining - allocated,
            lines |-> Append(plan.lines, [warehouse |-> w, qty |-> allocated])]

PlanSteps(r, qty, available, c, n) ==
  /\ r[0] = [remaining |-> qty, lines |-> <<>>]
  /\ \A k \in 1 .. n : r[k] = Taking(r[k - 1], c[k], available)

(* Taking from a candidate leaves a state of the loop.                      *)
LEMMA TakingStays ==
  ASSUME NEW available \in [Warehouses -> Int], NEW plan \in LoopState, NEW w \in Usable(available)
  PROVE  Taking(plan, w, available) \in LoopState
<1>1. w \in Warehouses /\ available[w] \in Nat /\ plan.remaining \in Nat
      /\ plan.lines \in Seq([warehouse : Warehouses, qty : Nat])
  BY DEF Usable, LoopState
<1> DEFINE allocated == IF plan.remaining < available[w] THEN plan.remaining ELSE available[w]
<1>2. allocated \in Nat /\ plan.remaining - allocated \in Nat
  BY <1>1
<1> HIDE DEF allocated
<1>3. [warehouse |-> w, qty |-> allocated] \in [warehouse : Warehouses, qty : Nat]
  BY <1>1, <1>2
<1>4. Append(plan.lines, [warehouse |-> w, qty |-> allocated]) \in Seq([warehouse : Warehouses, qty : Nat])
  BY <1>1, <1>3, AppendProperties
<1>5. [remaining |-> plan.remaining - allocated,
       lines |-> Append(plan.lines, [warehouse |-> w, qty |-> allocated])] \in LoopState
  BY <1>2, <1>4 DEF LoopState
<1> QED
  BY <1>5 DEF Taking, allocated

(* planAllocations returns what the last round of its loop leaves.          *)
LEMMA PlanFolds ==
  ASSUME NEW available \in [Warehouses -> Int], NEW qty \in Nat, NEW n \in Nat,
         InUse(available) \in [1 .. n -> Usable(available)]
  PROVE  \E r : /\ PlanSteps(r, qty, available, InUse(available), n)
                /\ PlanAllocations(qty, available) = [ok |-> r[n].remaining = 0, lines |-> r[n].lines]
<1> DEFINE c == InUse(available)
<1> DEFINE base == [remaining |-> qty, lines |-> <<>>]
<1> DEFINE Iter(h) ==
             h = [s \in SUBSET DOMAIN c |->
                    IF s = {} THEN base
                    ELSE LET x == Max(s) IN Taking(h[s \ {x}], c[x], available)]
<1> DEFINE h == CHOOSE h : Iter(h)
<1>5. PlanAllocations(qty, available) = [ok |-> h[DOMAIN c].remaining = 0, lines |-> h[DOMAIN c].lines]
  BY DEF PlanAllocations, FoldLeft, MapThenFoldSet, Taking, InUse, SortedByUse, Usable
<1> HIDE DEF c, h
<1> DEFINE F == [i \in 1 .. n |-> [t \in LoopState |-> Taking(t, c[i], available)]]
<1>0. DOMAIN c = 1 .. n /\ \A i \in 1 .. n : c[i] \in Usable(available)
  BY DEF c
<1>1. F \in [1 .. n -> [LoopState -> LoopState]]
  BY <1>0, TakingStays
<1>2. base \in LoopState
  BY DEF LoopState
<1>3. PICK g \in [SUBSET (1 .. n) -> LoopState] : Folding(g, n, base, F)
  <2> HIDE DEF F, base
  <2> QED
    BY <1>1, <1>2, FoldSolves
<1>4. Iter(g)
  <2>1. ASSUME NEW s \in SUBSET (1 .. n), s # {}
        PROVE  g[s] = LET x == Max(s) IN Taking(g[s \ {x}], c[x], available)
    <3>1. Max(s) \in 1 .. n
      <4>1. Max(s) \in s
        BY <2>1, MaxIsIn
      <4> QED
        BY <4>1
    <3>2. g[s] = F[Max(s)][g[s \ {Max(s)}]]
      <4> HIDE DEF F, base
      <4> QED
        BY <1>3, <2>1 DEF Folding
    <3>3. s \ {Max(s)} \in SUBSET (1 .. n)
      OBVIOUS
    <3>4. PICK m, t : m = Max(s) /\ t = g[s \ {Max(s)}]
      OBVIOUS
    <3>5. m \in 1 .. n /\ t \in LoopState
      BY <3>1, <3>3, <3>4
    <3>6. F[m][t] = Taking(t, c[m], available)
      BY <3>5
    <3> HIDE DEF F
    <3> QED
      BY <3>2, <3>4, <3>6
  <2>2. g[{}] = base
    <3> HIDE DEF F, base
    <3> QED
      BY <1>3 DEF Folding
  <2>3. g = [s \in SUBSET (1 .. n) |-> g[s]]
    OBVIOUS
  <2> HIDE DEF F, base
  <2>4. g = [s \in SUBSET (1 .. n) |->
               IF s = {} THEN base
               ELSE LET x == Max(s) IN Taking(g[s \ {x}], c[x], available)]
    BY <2>1, <2>2, <2>3
  <2> QED
    BY <1>0, <2>4
<1>6. Iter(h)
  <2> HIDE DEF Iter
  <2> QED
    BY <1>4 DEF h
<1> HIDE DEF F
<1> DEFINE r == [k \in 0 .. n |-> h[1 .. k]]
<1>7. \A k \in 0 .. n : r[k] = h[1 .. k]
  OBVIOUS
<1>8. PlanAllocations(qty, available) = [ok |-> r[n].remaining = 0, lines |-> r[n].lines]
  BY <1>0, <1>5, <1>7
<1> HIDE DEF r
<1>9. r[0] = base
  <2>1. h[{}] = base
    BY <1>6
  <2> QED
    BY <1>7, <2>1
<1>10. ASSUME NEW k \in 1 .. n
       PROVE  r[k] = Taking(r[k - 1], c[k], available)
  <2>1. /\ 1 .. k \in SUBSET (1 .. n) /\ 1 .. k # {}
        /\ Max(1 .. k) = k /\ (1 .. k) \ {k} = 1 .. k - 1
    BY PrefixesAre
  <2>2. h[1 .. k] = Taking(h[(1 .. k) \ {k}], c[k], available)
    BY <1>0, <1>6, <2>1
  <2>3. r[k] = h[1 .. k] /\ r[k - 1] = h[1 .. k - 1]
    BY <1>7
  <2> QED
    BY <2>1, <2>2, <2>3
<1>11. PlanSteps(r, qty, available, c, n)
  BY <1>9, <1>10 DEF PlanSteps
<1> QED
  BY <1>8, <1>11 DEF c

(* The quantities of a plan as a function.                                  *)
Amounts(lines) ==
  [w \in Warehouses |->
     SumFunction([i \in {j \in DOMAIN lines : lines[j].warehouse = w} |-> lines[i].qty])]

(* The lines of a plan go through the candidates c.                          *)
InTurn(lines, k, c, m, available) ==
  /\ UseOrder(c, m, available)
  /\ k \in 0 .. m /\ DOMAIN lines = 1 .. k
  /\ \A j \in 1 .. k : lines[j].warehouse = c[j] /\ lines[j].qty \in 1 .. available[c[j]]

(* The quantities of a plan are those of its lines, and 0 elsewhere.        *)
LEMMA AmountsAre ==
  ASSUME NEW available \in [Warehouses -> Int], NEW c, NEW m, NEW k, NEW lines,
         InTurn(lines, k, c, m, available)
  PROVE  /\ Amounts(lines) \in [Warehouses -> Nat]
         /\ \A j \in 1 .. k : Amounts(lines)[c[j]] = lines[j].qty
         /\ \A w \in Warehouses : (\A j \in 1 .. k : c[j] # w) => Amounts(lines)[w] = 0
<1>0. /\ m \in Nat /\ k \in 0 .. m /\ DOMAIN lines = 1 .. k
      /\ \A j \in 1 .. k : lines[j].warehouse = c[j] /\ lines[j].qty \in 1 .. available[c[j]]
      /\ \A j \in 1 .. m : c[j] \in Usable(available)
      /\ \A i, j \in 1 .. m : c[i] = c[j] => i = j
  BY DEF InTurn, UseOrder
<1>1. \A j \in 1 .. k : /\ j \in 1 .. m /\ c[j] \in Warehouses /\ available[c[j]] \in Int
                        /\ lines[j].qty \in Nat /\ c[j] \in Usable(available)
  BY <1>0 DEF Usable
<1> DEFINE At(w) == {j \in 1 .. k : lines[j].warehouse = w}
<1> DEFINE f(w) == [i \in At(w) |-> lines[i].qty]
<1>2. \A w \in Warehouses : Amounts(lines)[w] = SumFunction(f(w))
  BY <1>0 DEF Amounts
<1>3. ASSUME NEW j \in 1 .. k
      PROVE  Amounts(lines)[c[j]] = lines[j].qty
  <2>1. At(c[j]) = {j}
    BY <1>0, <1>1
  <2> PICK g : g = f(c[j])
    OBVIOUS
  <2>2. DOMAIN g = {j} /\ g[j] = lines[j].qty /\ g[j] \in Int
    BY <1>1, <2>1
  <2>3. SumFunction(g) = lines[j].qty
    <3> HIDE DEF f
    <3> QED
      BY <2>2, TotalOfOne
  <2>4. Amounts(lines)[c[j]] = SumFunction(g)
    <3>1. c[j] \in Warehouses
      BY <1>1
    <3> HIDE DEF f
    <3> QED
      BY <1>2, <3>1
  <2> QED
    BY <2>3, <2>4
<1>4. ASSUME NEW w \in Warehouses, \A j \in 1 .. k : c[j] # w
      PROVE  Amounts(lines)[w] = 0
  <2>1. At(w) = {}
    BY <1>0, <1>4
  <2> PICK g : g = f(w)
    OBVIOUS
  <2>2. DOMAIN g = {}
    BY <2>1
  <2>3. SumFunction(g) = 0
    <3> HIDE DEF f
    <3> QED
      BY <2>2, FS_EmptySet, TotalOfZeros
  <2>4. Amounts(lines)[w] = SumFunction(g)
    <3> HIDE DEF f
    <3> QED
      BY <1>2
  <2> QED
    BY <2>3, <2>4
<1>5. Amounts(lines) \in [Warehouses -> Nat]
  <2>1. \A w \in Warehouses : Amounts(lines)[w] \in Nat
    <3> SUFFICES ASSUME NEW w \in Warehouses PROVE Amounts(lines)[w] \in Nat
      OBVIOUS
    <3>1. CASE \A j \in 1 .. k : c[j] # w
      BY <1>4, <3>1
    <3>2. CASE \E j \in 1 .. k : c[j] = w
      BY <1>1, <1>3, <3>2
    <3> QED
      BY <3>1, <3>2
  <2>2. Amounts(lines) = [w \in Warehouses |-> Amounts(lines)[w]]
    BY DEF Amounts
  <2> QED
    BY <2>1, <2>2
<1> QED
  BY <1>3, <1>4, <1>5

(* What holds of a plan when k candidates have been considered.             *)
InLoop(plan, k, qty, available, c, m) ==
  LET l == Len(plan.lines)
  IN  /\ plan \in LoopState /\ k \in 0 .. m /\ l <= k
      /\ InTurn(plan.lines, l, c, m, available)
      /\ \A j \in 1 .. l : j < l \/ plan.remaining > 0 => plan.lines[j].qty = available[c[j]]
      /\ plan.remaining > 0 => l = k
      /\ SumFunction(Amounts(plan.lines)) = qty - plan.remaining

(* It holds before the first candidate.                                     *)
LEMMA LoopStarts ==
  ASSUME NEW available \in [Warehouses -> Int], NEW c, NEW m, UseOrder(c, m, available), NEW qty \in Nat
  PROVE  InLoop([remaining |-> qty, lines |-> <<>>], 0, qty, available, c, m)
<1> PICK plan : plan = [remaining |-> qty, lines |-> <<>>]
  OBVIOUS
<1>1. plan \in LoopState /\ Len(plan.lines) = 0 /\ DOMAIN plan.lines = 1 .. 0 /\ plan.remaining = qty
  BY DEF LoopState
<1>2. m \in Nat
  BY DEF UseOrder
<1>3. InTurn(plan.lines, 0, c, m, available)
  BY <1>1, <1>2 DEF InTurn
<1>4. SumFunction(Amounts(plan.lines)) = 0
  <2>1. /\ DOMAIN Amounts(plan.lines) = Warehouses
        /\ \A w \in Warehouses : Amounts(plan.lines)[w] = 0
    <3>1. DOMAIN Amounts(plan.lines) = Warehouses
      BY DEF Amounts
    <3>2. \A w \in Warehouses : Amounts(plan.lines)[w] = 0
      BY <1>3, AmountsAre
    <3> QED
      BY <3>1, <3>2
  <2> QED
    BY <2>1, IdsAreNumbered, TotalOfZeros
<1> QED
  BY <1>1, <1>2, <1>3, <1>4 DEF InLoop

(* g has another term at a.                                                 *)
ChangesTerm(g, f, S, a) ==
  /\ IsFiniteSet(S) /\ a \in S
  /\ f \in [S -> Int] /\ g \in [S -> Int] /\ \A x \in S \ {a} : g[x] = f[x]

(* The total changes as the term does.                                      *)
LEMMA MovingMoves ==
  ASSUME NEW S, NEW a, NEW f, NEW g, ChangesTerm(g, f, S, a)
  PROVE  SumFunction(g) = SumFunction(f) - f[a] + g[a]
BY TotalMoves DEF ChangesTerm

(* It holds after one more candidate if it held before.                     *)
LEMMA LoopGoesOn ==
  ASSUME NEW available \in [Warehouses -> Int], NEW c, NEW m, NEW qty \in Nat, NEW plan, NEW k \in Nat, k < m,
         InLoop(plan, k, qty, available, c, m)
  PROVE  InLoop(Taking(plan, c[k + 1], available), k + 1, qty, available, c, m)
<1> DEFINE l == Len(plan.lines)
<1>0. /\ plan \in LoopState /\ k \in 0 .. m /\ l <= k
      /\ InTurn(plan.lines, l, c, m, available)
      /\ \A j \in 1 .. l : j < l \/ plan.remaining > 0 => plan.lines[j].qty = available[c[j]]
      /\ plan.remaining > 0 => l = k
      /\ SumFunction(Amounts(plan.lines)) = qty - plan.remaining
  BY DEF InLoop
<1>1. m \in Nat /\ k + 1 \in 1 .. m /\ c[k + 1] \in Usable(available) /\ plan.remaining \in Nat
      /\ l \in Nat /\ UseOrder(c, m, available)
  BY <1>0, LenProperties DEF InTurn, UseOrder, LoopState
<1>2. CASE plan.remaining = 0
  <2>1. Taking(plan, c[k + 1], available) = plan
    BY <1>2 DEF Taking
  <2> QED
    BY <1>0, <1>1, <1>2, <2>1 DEF InLoop
<1>3. CASE plan.remaining > 0
  <2> DEFINE w == c[k + 1]
  <2> DEFINE q == IF plan.remaining < available[w] THEN plan.remaining ELSE available[w]
  <2> DEFINE line == [warehouse |-> w, qty |-> q]
  <2> DEFINE next == [remaining |-> plan.remaining - q, lines |-> Append(plan.lines, line)]
  <2>1. Taking(plan, w, available) = next
    BY <1>1, <1>3 DEF Taking
  <2>2. w \in Warehouses /\ available[w] \in Nat /\ available[w] > 0
    BY <1>1 DEF Usable
  <2>3. q \in 1 .. available[w] /\ plan.remaining - q \in Nat /\ (plan.remaining - q > 0 => q = available[w])
    BY <1>1, <1>3, <2>2
  <2>4. next \in LoopState
    BY <1>0, <1>1, <2>1, TakingStays
  <2>5. l = k
    BY <1>0, <1>3
  <2> HIDE DEF q
  <2> DEFINE more == next.lines
  <2>6. /\ Len(more) = k + 1 /\ DOMAIN more = 1 .. k + 1
        /\ \A j \in 1 .. k : more[j] = plan.lines[j]
        /\ more[k + 1] = line
    <3>1. plan.lines \in Seq([warehouse : Warehouses, qty : Nat])
      BY <1>0 DEF LoopState
    <3>2. line \in [warehouse : Warehouses, qty : Nat]
      BY <2>2, <2>3
    <3> HIDE DEF line
    <3> QED
      BY <2>5, <3>1, <3>2, AppendProperties, LenProperties
  <2>7. next.remaining = plan.remaining - q
    OBVIOUS
  <2>8. line.warehouse = w /\ line.qty = q
    OBVIOUS
  <2> HIDE DEF next, line, more
  <2>9. InTurn(more, k + 1, c, m, available)
    <3>1. \A j \in 1 .. k : plan.lines[j].warehouse = c[j] /\ plan.lines[j].qty \in 1 .. available[c[j]]
      BY <1>0, <2>5 DEF InTurn
    <3>2. \A j \in 1 .. k + 1 : more[j].warehouse = c[j] /\ more[j].qty \in 1 .. available[c[j]]
      <4> SUFFICES ASSUME NEW j \in 1 .. k + 1
                   PROVE  more[j].warehouse = c[j] /\ more[j].qty \in 1 .. available[c[j]]
        OBVIOUS
      <4>1. CASE j = k + 1
        BY <2>3, <2>6, <2>8, <4>1
      <4>2. CASE j # k + 1
        <5>1. j \in 1 .. k
          BY <4>2
        <5> QED
          BY <2>6, <3>1, <5>1
      <4> QED
        BY <4>1, <4>2
    <3>3. k + 1 \in 0 .. m
      BY <1>1
    <3> QED
      BY <1>1, <2>6, <3>2, <3>3 DEF InTurn
  <2>10. \A j \in 1 .. k + 1 : j < k + 1 \/ next.remaining > 0 => more[j].qty = available[c[j]]
    <3> SUFFICES ASSUME NEW j \in 1 .. k + 1, j < k + 1 \/ next.remaining > 0
                 PROVE  more[j].qty = available[c[j]]
      OBVIOUS
    <3>1. CASE j = k + 1
      BY <2>3, <2>6, <2>7, <2>8, <3>1
    <3>2. CASE j # k + 1
      <4>1. j \in 1 .. k
        BY <3>2
      <4>2. plan.lines[j].qty = available[c[j]]
        BY <1>0, <1>3, <2>5, <4>1
      <4> QED
        BY <2>6, <4>1, <4>2
    <3> QED
      BY <3>1, <3>2
  <2>11. SumFunction(Amounts(more)) = qty - next.remaining
    <3> PICK old, new : old = Amounts(plan.lines) /\ new = Amounts(more)
      OBVIOUS
    <3>1. /\ old \in [Warehouses -> Nat]
          /\ \A j \in 1 .. k : old[c[j]] = plan.lines[j].qty
          /\ \A v \in Warehouses : (\A j \in 1 .. k : c[j] # v) => old[v] = 0
      BY <1>0, <2>5, AmountsAre
    <3>2. /\ new \in [Warehouses -> Nat]
          /\ \A j \in 1 .. k + 1 : new[c[j]] = more[j].qty
          /\ \A v \in Warehouses : (\A j \in 1 .. k + 1 : c[j] # v) => new[v] = 0
      BY <2>9, AmountsAre
    <3>3. new[w] = q
      BY <2>6, <2>8, <3>2
    <3>4. old[w] = 0
      <4>1. \A i, j \in 1 .. m : c[i] = c[j] => i = j
        BY <1>1 DEF UseOrder
      <4>2. \A j \in 1 .. k : c[j] # w
        BY <1>1, <4>1
      <4> QED
        BY <2>2, <3>1, <4>2
    <3>5. ASSUME NEW v \in Warehouses \ {w} PROVE new[v] = old[v]
      <4>1. CASE \E j \in 1 .. k : c[j] = v
        <5> PICK j \in 1 .. k : c[j] = v
          BY <4>1
        <5>1. j \in 1 .. k + 1
          OBVIOUS
        <5>2. old[v] = plan.lines[j].qty /\ new[v] = more[j].qty
          BY <3>1, <3>2, <5>1
        <5>3. more[j] = plan.lines[j]
          BY <2>6
        <5> QED
          BY <5>2, <5>3
      <4>2. CASE \A j \in 1 .. k : c[j] # v
        <5>1. \A j \in 1 .. k + 1 : c[j] # v
          <6> SUFFICES ASSUME NEW j \in 1 .. k + 1, c[j] = v PROVE FALSE
            OBVIOUS
          <6>1. j = k + 1 \/ j \in 1 .. k
            OBVIOUS
          <6> QED
            BY <4>2, <6>1
        <5> QED
          BY <3>1, <3>2, <4>2, <5>1
      <4> QED
        BY <4>1, <4>2
    <3>6. SumFunction(new) = SumFunction(old) - old[w] + new[w]
      <4>1. ChangesTerm(new, old, Warehouses, w)
        BY <2>2, <3>1, <3>2, <3>5, IdsAreNumbered DEF ChangesTerm
      <4> QED
        BY <4>1, MovingMoves
    <3>7. SumFunction(old) = qty - plan.remaining
      BY <1>0
    <3> HIDE DEF w
    <3>8. q \in Int /\ plan.remaining \in Int
      BY <1>1, <2>3
    <3> QED
      BY <2>7, <3>3, <3>4, <3>6, <3>7, <3>8
  <2>12. InLoop(next, k + 1, qty, available, c, m)
    <3>1. k + 1 \in 0 .. m
      BY <1>1
    <3> QED
      BY <2>4, <2>6, <2>9, <2>10, <2>11, <3>1 DEF InLoop, more
  <2> QED
    BY <2>1, <2>12
<1> QED
  BY <1>1, <1>2, <1>3

-------------------------------------------------------------------------------
(* planAllocations: the plan *)

(* One quantity of every warehouse is at most the other.                    *)
Beneath(f, g) ==
  /\ f \in [Warehouses -> Int] /\ g \in [Warehouses -> Int]
  /\ \A w \in Warehouses : f[w] <= g[w]

(* What is at most the other everywhere is so in total, and is the same if  *)
(* the totals are.                                                          *)
LEMMA BeneathInTotal ==
  ASSUME NEW f, NEW g, Beneath(f, g)
  PROVE  /\ SumFunction(f) <= SumFunction(g)
         /\ SumFunction(f) \in Int /\ SumFunction(g) \in Int
         /\ SumFunction(f) = SumFunction(g) => f = g
<1>1. f \in [Warehouses -> Int] /\ g \in [Warehouses -> Int] /\ \A w \in Warehouses : f[w] <= g[w]
  BY DEF Beneath
<1>2. /\ SumFunction(f) <= SumFunction(g)
      /\ (\E w \in Warehouses : f[w] # g[w]) => SumFunction(f) < SumFunction(g)
      /\ SumFunction(f) \in Int /\ SumFunction(g) \in Int
  BY <1>1, IdsAreNumbered, TotalAtMost
<1>3. (\A w \in Warehouses : f[w] = g[w]) => f = g
  BY <1>1
<1> QED
  BY <1>2, <1>3

(* What every warehouse has.                                                *)
Having(available) == [w \in Warehouses |-> IF available[w] > 0 THEN available[w] ELSE 0]

(* What a greedy plan satisfies, warehouse by warehouse.                    *)
LEMMA GreedyPlanIs ==
  ASSUME NEW available \in [Warehouses -> Int], NEW qty \in Nat, NEW f \in GreedyPlans(qty, available)
  PROVE  /\ f \in [Warehouses -> Nat] /\ SumFunction(f) = qty
         /\ \A w \in Warehouses : f[w] > 0 => f[w] <= available[w]
         /\ \A v, w \in Warehouses :
              UsedBefore(available, v, w) /\ f[w] > 0 /\ available[v] > 0 => f[v] = available[v]
<1>1. DOMAIN available = Warehouses
  OBVIOUS
<1>2. f \in [Warehouses -> 0 .. qty] /\ IsGreedyPlan(qty, available, f)
  BY <1>1 DEF GreedyPlans
<1>3. f \in [Warehouses -> Nat]
  BY <1>2
<1> QED
  BY <1>1, <1>2, <1>3 DEF IsGreedyPlan

(* There is at most one greedy plan. *)
LEMMA GreedyPlansAreOne ==
  ASSUME NEW available \in [Warehouses -> Int], NEW qty \in Nat,
         NEW f \in GreedyPlans(qty, available), NEW g \in GreedyPlans(qty, available)
  PROVE  f = g
<1>1. /\ f \in [Warehouses -> Nat] /\ SumFunction(f) = qty
      /\ \A w \in Warehouses : f[w] > 0 => f[w] <= available[w]
      /\ \A v, w \in Warehouses :
           UsedBefore(available, v, w) /\ f[w] > 0 /\ available[v] > 0 => f[v] = available[v]
  BY GreedyPlanIs
<1>2. /\ g \in [Warehouses -> Nat] /\ SumFunction(g) = qty
      /\ \A w \in Warehouses : g[w] > 0 => g[w] <= available[w]
      /\ \A v, w \in Warehouses :
           UsedBefore(available, v, w) /\ g[w] > 0 /\ available[v] > 0 => g[v] = available[v]
  BY GreedyPlanIs
<1>3. f \in [Warehouses -> Int] /\ g \in [Warehouses -> Int]
  BY <1>1, <1>2
<1>4. ASSUME NEW v \in Warehouses, NEW w \in Warehouses, f[v] > g[v], g[w] > f[w]
      PROVE  FALSE
  <2>1. f[v] \in Nat /\ g[v] \in Nat /\ f[w] \in Nat /\ g[w] \in Nat
        /\ available[v] \in Int /\ available[w] \in Int
    BY <1>1, <1>2
  <2>2. f[v] > 0 /\ g[w] > 0 /\ f[v] <= available[v] /\ g[w] <= available[w] /\ v # w
    BY <1>1, <1>2, <1>4, <2>1
  <2>3. available[v] > 0 /\ available[w] > 0
    BY <2>1, <2>2
  <2>4. v \in Int /\ w \in Int
    BY IdsAreNumbered
  <2>5. UsedBefore(available, v, w) \/ UsedBefore(available, w, v)
    BY <2>1, <2>2, <2>4, UsedBeforeDecides
  <2>6. CASE UsedBefore(available, v, w)
    <3>1. g[v] = available[v]
      BY <1>2, <2>2, <2>3, <2>6
    <3> QED
      BY <1>4, <2>1, <2>2, <3>1
  <2>7. CASE UsedBefore(available, w, v)
    <3>1. f[w] = available[w]
      BY <1>1, <2>2, <2>3, <2>7
    <3> QED
      BY <1>4, <2>1, <2>2, <3>1
  <2> QED
    BY <2>5, <2>6, <2>7
<1>5. CASE \A w \in Warehouses : f[w] <= g[w]
  <2>1. Beneath(f, g)
    BY <1>3, <1>5 DEF Beneath
  <2> QED
    BY <1>1, <1>2, <2>1, BeneathInTotal
<1>6. CASE \A w \in Warehouses : g[w] <= f[w]
  <2>1. Beneath(g, f)
    BY <1>3, <1>6 DEF Beneath
  <2> QED
    BY <1>1, <1>2, <2>1, BeneathInTotal
<1>7. \A w \in Warehouses : f[w] \in Int /\ g[w] \in Int
  BY <1>3
<1> QED
  BY <1>4, <1>5, <1>6, <1>7

(* A greedy plan covers no more than what the warehouses have. *)
LEMMA GreedyPlansAreCovered ==
  ASSUME NEW available \in [Warehouses -> Int], NEW qty \in Nat, NEW f \in GreedyPlans(qty, available)
  PROVE  qty <= SumFunction(Having(available))
<1>1. /\ f \in [Warehouses -> Nat] /\ SumFunction(f) = qty
      /\ \A w \in Warehouses : f[w] > 0 => f[w] <= available[w]
  BY GreedyPlanIs
<1>2. /\ Having(available) \in [Warehouses -> Int]
      /\ \A w \in Warehouses : f[w] <= Having(available)[w]
  BY <1>1 DEF Having
<1>3. Beneath(f, Having(available))
  BY <1>1, <1>2 DEF Beneath
<1> QED
  BY <1>1, <1>3, BeneathInTotal

(* The loop goes through all candidates. *)
LEMMA LoopEnds ==
  ASSUME NEW available \in [Warehouses -> Int], NEW qty \in Nat
  PROVE  \E plan, m : /\ InLoop(plan, m, qty, available, InUse(available), m)
                      /\ PlanAllocations(qty, available) = [ok |-> plan.remaining = 0, lines |-> plan.lines]
<1> DEFINE c == InUse(available)
<1> DEFINE m == Cardinality(Usable(available))
<1>1. UseOrder(c, m, available)
  BY CandidatesInOrder
<1> HIDE DEF c, m
<1>2. m \in Nat /\ c \in [1 .. m -> Usable(available)]
  BY <1>1 DEF UseOrder
<1>3. PICK r : /\ PlanSteps(r, qty, available, c, m)
               /\ PlanAllocations(qty, available) = [ok |-> r[m].remaining = 0, lines |-> r[m].lines]
  BY <1>2, PlanFolds DEF c
<1> DEFINE G == {k \in 0 .. m : InLoop(r[k], k, qty, available, c, m)}
<1>4. 0 \in G
  <2>1. r[0] = [remaining |-> qty, lines |-> <<>>]
    BY <1>3 DEF PlanSteps
  <2>2. InLoop(r[0], 0, qty, available, c, m)
    BY <1>1, <2>1, LoopStarts
  <2>3. 0 \in 0 .. m
    BY <1>2
  <2> QED
    BY <2>2, <2>3, Zenon
<1>5. ASSUME NEW k \in 0 .. m - 1, k \in G PROVE k + 1 \in G
  <2>1. k \in Nat /\ k < m /\ k + 1 \in 1 .. m /\ (k + 1) - 1 = k /\ k + 1 \in 0 .. m
    BY <1>2
  <2>2. r[k + 1] = Taking(r[k], c[k + 1], available)
    BY <1>3, <2>1 DEF PlanSteps
  <2>3. InLoop(r[k], k, qty, available, c, m)
    BY <1>5
  <2>4. InLoop(r[k + 1], k + 1, qty, available, c, m)
    BY <2>1, <2>2, <2>3, LoopGoesOn
  <2> QED
    BY <2>1, <2>4
<1>6. m \in G
  <2>1. \A k \in 0 .. m - 1 : k \in G => k + 1 \in G
    BY <1>5
  <2> HIDE DEF G
  <2>2. 0 .. m \subseteq G
    BY <1>2, <1>4, <2>1, UpTo
  <2> QED
    BY <1>2, <2>2
<1>7. InLoop(r[m], m, qty, available, c, m)
  BY <1>6
<1> QED
  BY <1>3, <1>7 DEF c

(* What the loop leaves. *)
LEMMA LoopLeaves ==
  ASSUME NEW available \in [Warehouses -> Int], NEW qty \in Nat, NEW plan, NEW m, NEW c,
         InLoop(plan, m, qty, available, c, m)
  PROVE  /\ plan.remaining \in Nat /\ Amounts(plan.lines) \in [Warehouses -> Nat]
         /\ SumFunction(Amounts(plan.lines)) = qty - plan.remaining
         /\ \A w \in Warehouses :
              /\ Amounts(plan.lines)[w] <= Having(available)[w]
              /\ plan.remaining > 0 => Amounts(plan.lines)[w] = Having(available)[w]
         /\ \A v, w \in Warehouses :
              UsedBefore(available, v, w) /\ Amounts(plan.lines)[w] > 0 /\ available[v] > 0
                => Amounts(plan.lines)[v] = available[v]
         /\ \A i, j \in DOMAIN plan.lines :
              /\ plan.lines[i].qty > 0
              /\ plan.lines[i].warehouse = plan.lines[j].warehouse => i = j
<1> DEFINE l == Len(plan.lines)
<1>0. /\ plan \in LoopState /\ m \in Nat /\ l \in Nat /\ l <= m
      /\ InTurn(plan.lines, l, c, m, available)
      /\ \A j \in 1 .. l : j < l \/ plan.remaining > 0 => plan.lines[j].qty = available[c[j]]
      /\ plan.remaining > 0 => l = m
      /\ SumFunction(Amounts(plan.lines)) = qty - plan.remaining
  BY DEF InLoop, InTurn, UseOrder
<1> HIDE DEF l
<1>1. plan.remaining \in Nat
  BY <1>0 DEF LoopState
<1>2. /\ c \in [1 .. m -> Usable(available)]
      /\ \A i, j \in 1 .. m : i < j => UsedBefore(available, c[i], c[j])
      /\ \A i, j \in 1 .. m : c[i] = c[j] => i = j
      /\ \A w \in Usable(available) : \E i \in 1 .. m : c[i] = w
      /\ DOMAIN plan.lines = 1 .. l
      /\ \A j \in 1 .. l : plan.lines[j].warehouse = c[j] /\ plan.lines[j].qty \in 1 .. available[c[j]]
  BY <1>0 DEF InTurn, UseOrder
<1> PICK q : q = Amounts(plan.lines)
  OBVIOUS
<1>3. /\ q \in [Warehouses -> Nat]
      /\ \A j \in 1 .. l : q[c[j]] = plan.lines[j].qty
      /\ \A w \in Warehouses : (\A j \in 1 .. l : c[j] # w) => q[w] = 0
  BY <1>0, AmountsAre
<1>4. \A j \in 1 .. m : c[j] \in Warehouses /\ available[c[j]] \in Nat /\ available[c[j]] > 0
  <2> SUFFICES ASSUME NEW j \in 1 .. m
               PROVE  c[j] \in Warehouses /\ available[c[j]] \in Nat /\ available[c[j]] > 0
    OBVIOUS
  <2>1. c[j] \in Usable(available)
    BY <1>2
  <2> QED
    BY <2>1 DEF Usable
<1>5. 1 .. l \subseteq 1 .. m
  BY <1>0
<1>6. \A w \in Warehouses : w \in Usable(available) <=> available[w] > 0
  BY DEF Usable
<1>7. ASSUME NEW w \in Warehouses
      PROVE  /\ q[w] <= Having(available)[w]
             /\ plan.remaining > 0 => q[w] = Having(available)[w]
  <2>0. Having(available)[w] = IF available[w] > 0 THEN available[w] ELSE 0
    BY DEF Having
  <2>1. CASE \E j \in 1 .. l : c[j] = w
    <3> PICK j \in 1 .. l : c[j] = w
      BY <2>1
    <3>1. j \in 1 .. m /\ q[w] = plan.lines[j].qty /\ plan.lines[j].qty \in 1 .. available[w]
      BY <1>2, <1>3, <1>5
    <3>2. available[w] \in Nat /\ available[w] > 0
      BY <1>4, <3>1
    <3>3. plan.remaining > 0 => plan.lines[j].qty = available[w]
      BY <1>0
    <3> QED
      BY <2>0, <3>1, <3>2, <3>3
  <2>2. CASE \A j \in 1 .. l : c[j] # w
    <3>1. q[w] = 0
      BY <1>3, <2>2
    <3>2. available[w] \in Int
      OBVIOUS
    <3>3. plan.remaining > 0 => ~(available[w] > 0)
      BY <1>0, <1>2, <1>6, <2>2
    <3> QED
      BY <2>0, <3>1, <3>2, <3>3
  <2> QED
    BY <2>1, <2>2
<1>8. ASSUME NEW v \in Warehouses, NEW w \in Warehouses,
             UsedBefore(available, v, w), q[w] > 0, available[v] > 0
      PROVE  q[v] = available[v]
  <2>1. PICK j \in 1 .. l : c[j] = w
    BY <1>3, <1>8
  <2>2. PICK i \in 1 .. m : c[i] = v
    BY <1>2, <1>6, <1>8
  <2>3. v \in Int /\ w \in Int /\ available[v] \in Int /\ available[w] \in Int
    BY IdsAreNumbered
  <2>4. ~UsedBefore(available, w, v) /\ v # w
    BY <1>8, <2>3, UsedBeforeDecides
  <2>5. i < j
    <3>1. j \in 1 .. m
      BY <1>5
    <3>2. ~(j < i)
      BY <1>2, <2>1, <2>2, <2>4, <3>1
    <3>3. i # j
      BY <2>1, <2>2, <2>4
    <3> QED
      BY <3>1, <3>2, <3>3
  <2>6. i \in 1 .. l /\ i < l
    BY <1>0, <2>5
  <2> QED
    BY <1>0, <1>3, <2>2, <2>6
<1>9. ASSUME NEW i \in DOMAIN plan.lines, NEW j \in DOMAIN plan.lines
      PROVE  /\ plan.lines[i].qty > 0
             /\ plan.lines[i].warehouse = plan.lines[j].warehouse => i = j
  <2>1. i \in 1 .. l /\ j \in 1 .. l /\ i \in 1 .. m /\ j \in 1 .. m
    BY <1>2, <1>5
  <2>2. plan.lines[i].warehouse = c[i] /\ plan.lines[j].warehouse = c[j]
        /\ plan.lines[i].qty \in 1 .. available[c[i]] /\ available[c[i]] \in Nat
    BY <1>2, <1>4, <2>1
  <2>3. plan.lines[i].warehouse = plan.lines[j].warehouse => i = j
    BY <1>2, <2>1, <2>2
  <2> QED
    BY <2>2, <2>3
<1> QED
  BY <1>0, <1>1, <1>3, <1>7, <1>8, <1>9

(* AllocationIsRight, of a call that plans.                                 *)
PlannedRight(qty, available, plan) ==
  LET has == SumFunction(Having(available))
  IN  /\ plan.ok <=> has >= qty
      /\ GreedyPlans(qty, available) = IF plan.ok THEN {Amounts(plan.lines)} ELSE {}
      /\ \A i, j \in DOMAIN plan.lines :
           /\ plan.lines[i].qty > 0
           /\ plan.lines[i].warehouse = plan.lines[j].warehouse => i = j

(* The fields of what planAllocations returns.                              *)
LEMMA PlanHas ==
  ASSUME NEW enough \in BOOLEAN, NEW lines, NEW p, p = [ok |-> enough, lines |-> lines]
  PROVE  p.ok = enough /\ p.lines = lines
OBVIOUS

(* For any availability, oversold rows included, planAllocations            *)
(* (allocation.ts:4-39) succeeds exactly when the warehouses together have  *)
(* the quantity, and returns the one plan that exhausts each warehouse      *)
(* before it touches the next.                                              *)
THEOREM PlanningIsRight ==
  ASSUME NEW available \in [Warehouses -> Int], NEW qty \in Nat
  PROVE  PlannedRight(qty, available, PlanAllocations(qty, available))
<1>1. PICK plan, m : /\ InLoop(plan, m, qty, available, InUse(available), m)
                     /\ PlanAllocations(qty, available) = [ok |-> plan.remaining = 0, lines |-> plan.lines]
  BY LoopEnds
<1> PICK q, has : q = Amounts(plan.lines) /\ has = Having(available)
  OBVIOUS
<1>2. /\ plan.remaining \in Nat /\ q \in [Warehouses -> Nat]
      /\ SumFunction(q) = qty - plan.remaining
      /\ \A w \in Warehouses : q[w] <= has[w] /\ (plan.remaining > 0 => q[w] = has[w])
      /\ \A v, w \in Warehouses :
           UsedBefore(available, v, w) /\ q[w] > 0 /\ available[v] > 0 => q[v] = available[v]
      /\ \A i, j \in DOMAIN plan.lines :
           /\ plan.lines[i].qty > 0
           /\ plan.lines[i].warehouse = plan.lines[j].warehouse => i = j
  BY <1>1, LoopLeaves
<1>3. has \in [Warehouses -> Int] /\ \A w \in Warehouses : has[w] = IF available[w] > 0 THEN available[w] ELSE 0
  BY DEF Having
<1>4. Beneath(q, has)
  BY <1>2, <1>3 DEF Beneath
<1>5. SumFunction(q) <= SumFunction(has) /\ SumFunction(has) \in Int
  BY <1>4, BeneathInTotal
<1>6. plan.remaining = 0 <=> SumFunction(has) >= qty
  <2>1. CASE plan.remaining = 0
    BY <1>2, <1>5, <2>1
  <2>2. CASE plan.remaining > 0
    <3>1. q = has
      BY <1>2, <1>3, <2>2
    <3> QED
      BY <1>2, <1>5, <2>2, <3>1
  <2> QED
    BY <1>2, <2>1, <2>2
<1> PICK p : p = PlanAllocations(qty, available)
  OBVIOUS
<1>7. (p.ok <=> plan.remaining = 0) /\ p.lines = plan.lines /\ Amounts(p.lines) = q
  <2>1. p = [ok |-> plan.remaining = 0, lines |-> plan.lines]
    BY <1>1
  <2>2. PICK enough \in BOOLEAN : enough <=> plan.remaining = 0
    OBVIOUS
  <2>3. p = [ok |-> enough, lines |-> plan.lines]
    BY <2>1, <2>2
  <2>4. p.ok = enough /\ p.lines = plan.lines
    BY <2>3, PlanHas
  <2> QED
    BY <2>2, <2>4
<1>8. /\ p.ok <=> SumFunction(Having(available)) >= qty
      /\ \A i, j \in DOMAIN p.lines :
           /\ p.lines[i].qty > 0
           /\ p.lines[i].warehouse = p.lines[j].warehouse => i = j
  BY <1>2, <1>6, <1>7
<1>9. CASE plan.remaining = 0
  <2>1. q \in GreedyPlans(qty, available)
    <3>1. SumFunction(q) = qty
      BY <1>2, <1>9
    <3>2. \A w \in Warehouses : q[w] \in 0 .. qty
      <4>1. \A w \in Warehouses : q[w] <= SumFunction(q)
        BY <1>2, IdsAreNumbered, TermAtMostTotal
      <4> QED
        BY <1>2, <3>1, <4>1
    <3>3. q \in [Warehouses -> 0 .. qty]
      BY <1>2, <3>2
    <3>4. \A w \in Warehouses : q[w] > 0 => q[w] <= available[w]
      BY <1>2, <1>3
    <3>5. DOMAIN available = Warehouses
      OBVIOUS
    <3>6. IsGreedyPlan(qty, available, q)
      BY <1>2, <3>1, <3>4, <3>5 DEF IsGreedyPlan
    <3> QED
      BY <3>3, <3>5, <3>6 DEF GreedyPlans
  <2>2. \A f \in GreedyPlans(qty, available) : f = q
    BY <2>1, GreedyPlansAreOne
  <2>3. GreedyPlans(qty, available) = {q}
    BY <2>1, <2>2
  <2> QED
    BY <1>9, <1>7, <1>8, <2>3 DEF PlannedRight
<1>10. CASE plan.remaining > 0
  <2>1. ~(SumFunction(has) >= qty)
    BY <1>2, <1>6, <1>10
  <2>2. \A f \in GreedyPlans(qty, available) : qty <= SumFunction(has)
    BY GreedyPlansAreCovered
  <2>3. GreedyPlans(qty, available) = {}
    BY <1>5, <2>1, <2>2
  <2> QED
    BY <1>2, <1>10, <1>7, <1>8, <2>3 DEF PlannedRight
<1> QED
  BY <1>2, <1>9, <1>10

===============================================================================
